---------------------------- MODULE Spec2Model ----------------------------
(***************************************************************************)
(* A model of fastestimator/util/traceability_util.py:                     *)
(*   - _parse_instructions, the reverse stack machine that rebuilds the    *)
(*     expression of a lambda from its disassembled instruction list;      *)
(*   - _trace_value, the renderer of runtime values;                       *)
(*   - traceable, the class decorator that caches a construction summary   *)
(*     and exposes fe_summary / fe_state.                                  *)
(* Indices are Python's (0-based, negative indices count from the end);    *)
(* TLA+ sequences are 1-based, so position i of a list is seq[i + 1].      *)
(***************************************************************************)
EXTENDS Integers, Sequences, FiniteSets, TLC

(***************************************************************************)
(* Bounds of the model.                                                    *)
(***************************************************************************)
\* longest instruction list enumerated exhaustively over the alphabet
MaxLen == 3
\* most arguments of a call expression
MaxArgs == 3
\* most wrapper entries (calls of a wrapped __init__) on the one instance
MaxInits == 2
\* the calls of _trace_value made on one value
MaxRenders == 2

(***************************************************************************)
(* Python values.  Every value is a record with a tag; the other fields    *)
(* are named differently per tag so that values of different kinds can be  *)
(* compared.                                                               *)
(***************************************************************************)
NoneVal == [tag |-> "None"]
IntV(n) == [tag |-> "int", i |-> n]
StrV(t) == [tag |-> "str", s |-> t]
Tuple(xs) == [tag |-> "tuple", items |-> xs]
List(xs) == [tag |-> "list", items |-> xs]
SetOf(xs) == [tag |-> "set", members |-> xs]
Dict(es) == [tag |-> "dict", entries |-> es]
\* an object living outside the parser: a module, a function, a class instance
Obj(name) == [tag |-> "object", id |-> name]

\* a bound method: its __name__ and its __self__
Method(name, self) == [tag |-> "method", name |-> name, self |-> self]
\* a tf.keras.Model or torch.nn.Module: its model_name (NoneVal when it has
\* no such attribute)
Model(name, model_name) == [tag |-> "model", id |-> name, model_name |-> model_name]
\* a tensor or ndarray: what str() of its numpy value gives
Tensor(shown) == [tag |-> "tensor", shown |-> shown]
\* the value v with the attribute _fe_traceability_summary set to summary
Traced(v, summary) == v @@ [summary |-> summary]
\* hasattr(v, '_fe_traceability_summary')
HasSummary(v) == "summary" \in DOMAIN v

_VarWrap(v) == [tag |-> "_VarWrap", var |-> v]
_Command(l, r, c) == [tag |-> "_Command", left |-> l, right |-> r, command |-> c]
_Condition(l, r, c) == [tag |-> "_Condition", left |-> l, right |-> r, condition |-> c]
_BoundFn(f, a) == [tag |-> "_BoundFn", func |-> f, args |-> a]
\* inspect.BoundArguments: .arguments is an ordered name -> value mapping
BoundArguments(es) == [tag |-> "BoundArguments", arguments |-> es]

\* what _parse_instructions returns when parsing fails
ParseFailure == NoneVal

_CommandTable ==
  [c \in {"POWER", "MULTIPLY", "MATRIX_MULTIPLY", "FLOOR_DIVIDE", "TRUE_DIVIDE",
          "MODULO", "ADD", "SUBTRACT", "SUBSCR", "LSHIFT", "RSHIFT", "AND",
          "XOR", "OR", ">", "<", "==", "!=", "<=", ">="} |->
     CASE c = "POWER" -> "**"
       [] c = "MULTIPLY" -> "*"
       [] c = "MATRIX_MULTIPLY" -> "@"
       [] c = "FLOOR_DIVIDE" -> "//"
       [] c = "TRUE_DIVIDE" -> "/"
       [] c = "MODULO" -> "%"
       [] c = "ADD" -> "+"
       [] c = "SUBTRACT" -> "-"
       [] c = "SUBSCR" -> "[]"
       [] c = "LSHIFT" -> "<<"
       [] c = "RSHIFT" -> ">>"
       [] c = "AND" -> "&"
       [] c = "XOR" -> "^"
       [] c = "OR" -> "|"
       [] OTHER -> c]

(***************************************************************************)
(* Python helpers: sequences, dicts, iteration, hashing.                   *)
(***************************************************************************)
Last(xs) == xs[Len(xs)]
Front(xs) == SubSeq(xs, 1, Len(xs) - 1)
Reverse(xs) == [j \in 1..Len(xs) |-> xs[Len(xs) + 1 - j]]

\* list.pop(i) / list[i]: a negative index counts from the end
PyIndex(xs, i) == IF i < 0 THEN i + Len(xs) ELSE i
PyIndexOk(xs, i) == PyIndex(xs, i) >= 0 /\ PyIndex(xs, i) < Len(xs)
PyAt(xs, i) == xs[PyIndex(xs, i) + 1]
PyRemove(xs, i) ==
  [j \in 1..(Len(xs) - 1) |-> IF j <= PyIndex(xs, i) THEN xs[j] ELSE xs[j + 1]]

\* dict.get(key, default) on a mapping given as a TLA+ function
Get(d, key, default) == IF key \in DOMAIN d THEN d[key] ELSE default

\* an entry of an insertion-ordered dict
Entry(k, v) == [k |-> k, v |-> v]
HasKey(es, k) == \E j \in 1..Len(es) : es[j].k = k
\* d[k] = v: an existing key keeps its place, a new key goes last
DictSet(es, k, v) ==
  IF HasKey(es, k)
  THEN [j \in 1..Len(es) |-> IF es[j].k = k THEN Entry(k, v) ELSE es[j]]
  ELSE Append(es, Entry(k, v))
DictKeys(es) == [j \in 1..Len(es) |-> es[j].k]

RECURSIVE Hashable(_)
Hashable(v) ==
  CASE v.tag \in {"list", "set", "dict", "BoundArguments"} -> FALSE
    [] v.tag = "tuple" -> \A j \in 1..Len(v.items) : Hashable(v.items[j])
    [] v.tag = "_VarWrap" -> TRUE
    [] v.tag = "_Command" -> Hashable(v.left) /\ Hashable(v.right)
    [] v.tag = "_Condition" ->
         Hashable(v.left) /\ Hashable(v.right) /\ Hashable(v.condition)
    [] v.tag = "_BoundFn" -> Hashable(v.func) /\ Hashable(v.args)
    [] OTHER -> TRUE

\* set(xs): the elements of xs, duplicates dropped
Range(xs) == {xs[j] : j \in 1..Len(xs)}
\* the order in which a set is iterated: some order of its members (Python
\* fixes none); nothing below relies on which
RECURSIVE SetOrder(_)
SetOrder(S) ==
  IF S = {} THEN <<>>
  ELSE LET x == CHOOSE y \in S : TRUE IN <<x>> \o SetOrder(S \ {x})

\* iter(v): the elements v yields, for the kinds that are iterable.  A
\* namedtuple is a tuple; the strings of the model have one character.
Iterable(v) ==
  v.tag \in {"tuple", "list", "set", "dict", "str",
             "_VarWrap", "_Command", "_Condition", "_BoundFn"}
Iter(v) ==
  CASE v.tag \in {"tuple", "list"} -> v.items
    [] v.tag = "set" -> SetOrder(v.members)
    [] v.tag = "dict" -> DictKeys(v.entries)
    [] v.tag = "str" -> <<v>>
    [] v.tag = "_VarWrap" -> <<StrV(v.var)>>
    [] v.tag = "_Command" -> <<v.left, v.right, StrV(v.command)>>
    [] v.tag = "_Condition" -> <<v.left, v.right, v.condition>>
    [] v.tag = "_BoundFn" -> <<v.func, v.args>>
    [] OTHER -> <<>>
\* reversed(v) needs a sequence: sets and (before Python 3.8) dicts are not
Reversible(v) == Iterable(v) /\ v.tag \notin {"set", "dict"}


(***************************************************************************)
(* The world outside the parser: the objects the scope can resolve to,     *)
(* their attributes (getattr), whether they are callable, and their        *)
(* signatures (inspect.signature).                                         *)
(***************************************************************************)
\* the attributes an object has, as name -> value
Attrs(v) ==
  IF v.tag = "object" /\ v.id = "foo"
  THEN ("bar" :> Obj("foo.bar")) @@ ("baz" :> Obj("foo.baz"))
  ELSE IF v.tag = "object" /\ v.id = "foo.bar"
  THEN ("baz" :> Obj("foo.bar.baz"))
  ELSE <<>>
HasAttr(v, name) == name \in DOMAIN Attrs(v)
GetAttr(v, name) == Attrs(v)[name]

\* hasattr(v, '__call__')
Callable(v) == v.tag = "object" /\ v.id \in {"foo.bar", "foo.baz", "foo.bar.baz", "len"}

\* a declared parameter
Param(n, kind, dflt) == [name |-> n, kind |-> kind, default |-> dflt]
\* the default of a parameter that declares none (inspect.Parameter.empty)
Empty == [tag |-> "empty"]
\* inspect.signature(f) of the callables of the model:
\*   foo.bar(a, k=0), foo.baz(a, b, k=0), len(obj, /)
Signature(f) ==
  CASE f.id = "foo.bar" ->
         <<Param("a", "positional_or_keyword", Empty),
           Param("k", "positional_or_keyword", IntV(0))>>
    [] f.id = "foo.baz" ->
         <<Param("a", "positional_or_keyword", Empty),
           Param("b", "positional_or_keyword", Empty),
           Param("k", "positional_or_keyword", IntV(0))>>
    [] f.id = "len" -> <<Param("obj", "positional_only", Empty)>>
    [] OTHER -> <<>>

\* Signature.bind(*pos, **kw) followed by apply_defaults(): the mapping of
\* every parameter, in declaration order, to its argument or its default.
\* kw is an ordered dict of entries whose keys are str values.
KwFor(kw, name) == (CHOOSE j \in 1..Len(kw) : kw[j].k = StrV(name))
BindOk(sig, pos, kw) ==
  /\ Len(pos) <= Len(sig)
  /\ \A j \in 1..Len(kw) :
       \E p \in (Len(pos) + 1)..Len(sig) :
          /\ kw[j].k = StrV(sig[p].name)
          /\ sig[p].kind # "positional_only"
  /\ \A p \in (Len(pos) + 1)..Len(sig) :
       HasKey(kw, StrV(sig[p].name)) \/ sig[p].default # Empty
BindMutantKeywordsFirst(sig, pos, kw) ==
  [p \in 1..Len(sig) |->
     Entry(StrV(sig[p].name),
           IF p <= Len(kw) THEN kw[p].v
           ELSE IF p - Len(kw) <= Len(pos) THEN pos[p - Len(kw)]
           ELSE sig[p].default)]
Bind(sig, pos, kw) ==
  [p \in 1..Len(sig) |->
     Entry(StrV(sig[p].name),
           IF p <= Len(pos) THEN pos[p]
           ELSE IF HasKey(kw, StrV(sig[p].name))
                THEN kw[KwFor(kw, sig[p].name)].v
                ELSE sig[p].default)]

(***************************************************************************)
(* inspect.ClosureVars: three name -> value mappings.                      *)
(***************************************************************************)
ClosureVars(nl, gl, bi) == [nonlocals |-> nl, globals |-> gl, builtins |-> bi]

\* closure_vars.nonlocals.get(name, closure_vars.globals.get(name,
\*     closure_vars.builtins.get(name, None)))
ResolveMutantGlobalsFirst(closure, name) ==
  Get(closure.globals, name,
      Get(closure.nonlocals, name, Get(closure.builtins, name, NoneVal)))
Resolve(closure, name) ==
  Get(closure.nonlocals, name,
      Get(closure.globals, name, Get(closure.builtins, name, NoneVal)))

_deref_is_callable(instruction, closure) ==
  Callable(Resolve(closure, instruction.argval.s))

(***************************************************************************)
(* dis.Instruction: the opcode name and the operand value.  Counts are     *)
(* int values, names are str values, constants are any value.              *)
(***************************************************************************)
Instruction(op, arg) == [opname |-> op, argval |-> arg]

\* strip_prefix(strip_prefix(opname, 'BINARY_'), 'INPLACE_') for the
\* arithmetic opcodes of the interpreter
Mnemonics ==
  {"POWER", "MULTIPLY", "MATRIX_MULTIPLY", "FLOOR_DIVIDE", "TRUE_DIVIDE",
   "MODULO", "ADD", "SUBTRACT", "SUBSCR", "LSHIFT", "RSHIFT", "AND", "XOR", "OR"}
BinaryOpnames ==
  {"BINARY_POWER", "BINARY_MULTIPLY", "BINARY_MATRIX_MULTIPLY",
   "BINARY_FLOOR_DIVIDE", "BINARY_TRUE_DIVIDE", "BINARY_MODULO", "BINARY_ADD",
   "BINARY_SUBTRACT", "BINARY_SUBSCR", "BINARY_LSHIFT", "BINARY_RSHIFT",
   "BINARY_AND", "BINARY_XOR", "BINARY_OR"}
InplaceOpnames ==
  {"INPLACE_POWER", "INPLACE_MULTIPLY", "INPLACE_MATRIX_MULTIPLY",
   "INPLACE_FLOOR_DIVIDE", "INPLACE_TRUE_DIVIDE", "INPLACE_MODULO", "INPLACE_ADD",
   "INPLACE_SUBTRACT", "INPLACE_LSHIFT", "INPLACE_RSHIFT",
   "INPLACE_AND", "INPLACE_XOR", "INPLACE_OR"}
strip_prefix(opname) ==
  CASE opname \in {"BINARY_POWER", "INPLACE_POWER"} -> "POWER"
    [] opname \in {"BINARY_MULTIPLY", "INPLACE_MULTIPLY"} -> "MULTIPLY"
    [] opname \in {"BINARY_MATRIX_MULTIPLY", "INPLACE_MATRIX_MULTIPLY"} -> "MATRIX_MULTIPLY"
    [] opname \in {"BINARY_FLOOR_DIVIDE", "INPLACE_FLOOR_DIVIDE"} -> "FLOOR_DIVIDE"
    [] opname \in {"BINARY_TRUE_DIVIDE", "INPLACE_TRUE_DIVIDE"} -> "TRUE_DIVIDE"
    [] opname \in {"BINARY_MODULO", "INPLACE_MODULO"} -> "MODULO"
    [] opname \in {"BINARY_ADD", "INPLACE_ADD"} -> "ADD"
    [] opname \in {"BINARY_SUBTRACT", "INPLACE_SUBTRACT"} -> "SUBTRACT"
    [] opname = "BINARY_SUBSCR" -> "SUBSCR"
    [] opname \in {"BINARY_LSHIFT", "INPLACE_LSHIFT"} -> "LSHIFT"
    [] opname \in {"BINARY_RSHIFT", "INPLACE_RSHIFT"} -> "RSHIFT"
    [] opname \in {"BINARY_AND", "INPLACE_AND"} -> "AND"
    [] opname \in {"BINARY_XOR", "INPLACE_XOR"} -> "XOR"
    [] opname \in {"BINARY_OR", "INPLACE_OR"} -> "OR"
    [] OTHER -> opname

(***************************************************************************)
(* _parse_instructions.  Its locals are gathered in a record                *)
(*   [instructions, conditions, args, idx, ctl, err, val]                   *)
(* where ctl says how the current pass through the loop body goes on:       *)
(*   "run"    to the idx += 1 that ends the pass,                           *)
(*   "break"  out of the loop, to the final test,                           *)
(*   "return" out of the function with val,                                 *)
(*   "raise"  out of the function with the exception err.                   *)
(* Each handler is one branch of the if/elif chain of the loop body.        *)
(***************************************************************************)
Locals(ins, conds, as, i) ==
  [instructions |-> ins, conditions |-> conds, args |-> as, idx |-> i,
   ctl |-> "run", err |-> "", val |-> NoneVal]

Ok(s) == s.ctl = "run"
Raise(s, e) == [s EXCEPT !.ctl = "raise", !.err = e]
Return(s, v) == [s EXCEPT !.ctl = "return", !.val = v]

\* instructions.pop(idx - 1); idx -= 1
PopBeforeMutantKeepIdx(s) ==
  IF ~Ok(s) THEN s
  ELSE IF ~PyIndexOk(s.instructions, s.idx - 1) THEN Raise(s, "IndexError")
  ELSE [s EXCEPT !.instructions = PyRemove(@, s.idx - 1)]
PopBefore(s) ==
  IF ~Ok(s) THEN s
  ELSE IF ~PyIndexOk(s.instructions, s.idx - 1) THEN Raise(s, "IndexError")
  ELSE [s EXCEPT !.instructions = PyRemove(@, s.idx - 1), !.idx = @ - 1]

\* for i in range(n): acc.appendleft(args.pop()); instructions.pop(idx - 1); idx -= 1
RECURSIVE PopN(_, _, _)
PopN(s, n, acc) ==
  IF n <= 0 \/ ~Ok(s) THEN [s |-> s, acc |-> acc]
  ELSE IF s.args = <<>> THEN [s |-> Raise(s, "IndexError"), acc |-> acc]
  ELSE PopN(PopBefore([s EXCEPT !.args = Front(@)]), n - 1, <<Last(s.args)>> \o acc)

\* lines 176-195: RETURN_VALUE
DoReturnMutantRightFirst(s) ==
  IF s.conditions = <<>> THEN [s EXCEPT !.ctl = "break"]
  ELSE IF s.args = <<>> THEN Raise([s EXCEPT !.conditions = Front(@)], "IndexError")
  ELSE
    LET current_condition == Last(s.conditions)
        arg == Last(s.args)
        s1 == PopBefore([s EXCEPT !.conditions = Front(@), !.args = Front(@)])
    IN IF ~Ok(s1) THEN s1
       ELSE IF current_condition.right = NoneVal /\ current_condition.left = NoneVal
       THEN PopBefore([s1 EXCEPT !.conditions =
                         Append(@, _Condition(NoneVal, arg, current_condition.condition))])
       ELSE LET s2 == [s1 EXCEPT !.args =
                         Append(@, _Condition(arg, current_condition.right,
                                              current_condition.condition))]
            IN IF s2.conditions # <<>> THEN [s2 EXCEPT !.idx = @ - 1] ELSE s2
\* the same without the step back of lines 191-193
DoReturnMutantNoStepBack(s) ==
  IF s.conditions = <<>> THEN [s EXCEPT !.ctl = "break"]
  ELSE IF s.args = <<>> THEN Raise([s EXCEPT !.conditions = Front(@)], "IndexError")
  ELSE
    LET current_condition == Last(s.conditions)
        arg == Last(s.args)
        s1 == PopBefore([s EXCEPT !.conditions = Front(@), !.args = Front(@)])
    IN IF ~Ok(s1) THEN s1
       ELSE IF current_condition.left = NoneVal
       THEN PopBefore([s1 EXCEPT !.conditions =
                         Append(@, _Condition(arg, NoneVal, current_condition.condition))])
       ELSE [s1 EXCEPT !.args =
               Append(@, _Condition(current_condition.left, arg,
                                    current_condition.condition))]
DoReturn(s) ==
  IF s.conditions = <<>> THEN [s EXCEPT !.ctl = "break"]
  ELSE IF s.args = <<>> THEN Raise([s EXCEPT !.conditions = Front(@)], "IndexError")
  ELSE
    LET current_condition == Last(s.conditions)
        arg == Last(s.args)
        s1 == PopBefore([s EXCEPT !.conditions = Front(@), !.args = Front(@)])
    IN IF ~Ok(s1) THEN s1
       ELSE IF current_condition.left = NoneVal
       THEN PopBefore([s1 EXCEPT !.conditions =
                         Append(@, _Condition(arg, NoneVal, current_condition.condition))])
       ELSE LET s2 == [s1 EXCEPT !.args =
                         Append(@, _Condition(current_condition.left, arg,
                                              current_condition.condition))]
            IN IF s2.conditions # <<>> THEN [s2 EXCEPT !.idx = @ - 1] ELSE s2

\* lines 196-198: LOAD_CONST
DoLoadConst(s, instruction) == [s EXCEPT !.args = Append(@, instruction.argval)]

\* lines 199-201: LOAD_FAST
DoLoadFast(s, instruction) ==
  [s EXCEPT !.args = Append(@, _VarWrap(instruction.argval.s))]

\* lines 202-215: BUILD_LIST, BUILD_TUPLE, BUILD_SET
DoBuildSeq(s, instruction) ==
  LET r == PopN(s, instruction.argval.i, <<>>)
  IN IF ~Ok(r.s) THEN r.s
     ELSE IF instruction.opname = "BUILD_TUPLE"
          THEN [r.s EXCEPT !.args = Append(@, Tuple(r.acc))]
     ELSE IF instruction.opname = "BUILD_SET"
          THEN IF \E j \in 1..Len(r.acc) : ~Hashable(r.acc[j])
               THEN Raise(r.s, "TypeError")
               ELSE [r.s EXCEPT !.args = Append(@, SetOf(Range(r.acc)))]
     ELSE [r.s EXCEPT !.args = Append(@, List(r.acc))]

\* lines 216-228: BUILD_MAP
RECURSIVE BuildMapLoop(_, _, _)
BuildMapLoop(s, n, arg) ==
  IF n <= 0 THEN [s EXCEPT !.args = Append(@, Dict(arg))]
  ELSE IF Len(s.args) = 0 THEN Raise(s, "IndexError")
  ELSE IF Len(s.args) = 1 THEN Raise([s EXCEPT !.args = <<>>], "IndexError")
  ELSE
    LET v == s.args[Len(s.args)]
        k == s.args[Len(s.args) - 1]
        s1 == PopBefore(PopBefore([s EXCEPT !.args = SubSeq(@, 1, Len(@) - 2)]))
    IN IF ~Ok(s1) THEN s1
       ELSE IF ~Hashable(k) THEN Raise(s1, "TypeError")
       ELSE BuildMapLoop(s1, n - 1, DictSet(arg, k, v))
DoBuildMap(s, instruction) == BuildMapLoop(s, instruction.argval.i, <<>>)

\* {key: val for key, val in zip(keys, vals)}
RECURSIVE ZipDict(_, _, _)
ZipDict(keys, vals, arg) ==
  IF keys = <<>> \/ vals = <<>> THEN arg
  ELSE ZipDict(Tail(keys), Tail(vals), DictSet(arg, Head(keys), Head(vals)))
ZipLen(keys, vals) == IF Len(keys) < Len(vals) THEN Len(keys) ELSE Len(vals)

\* lines 229-239: BUILD_CONST_KEY_MAP
DoBuildConstKeyMap(s, instruction) ==
  IF s.args = <<>> THEN Raise(s, "IndexError")
  ELSE
    LET keys == Last(s.args)
        r == PopN(PopBefore([s EXCEPT !.args = Front(@)]), instruction.argval.i, <<>>)
    IN IF ~Ok(r.s) THEN r.s
       ELSE IF ~Iterable(keys) THEN Raise(r.s, "TypeError")
       ELSE IF \E j \in 1..ZipLen(Iter(keys), r.acc) : ~Hashable(Iter(keys)[j])
            THEN Raise(r.s, "TypeError")
       ELSE [r.s EXCEPT !.args = Append(@, Dict(ZipDict(Iter(keys), r.acc, <<>>)))]

\* lines 240-241: the test of the LOAD_DEREF branch.  It reads
\* instructions[idx + 1] when the name does not resolve to a callable.
AttrLoad(instruction) == instruction.opname \in {"LOAD_METHOD", "LOAD_ATTR"}
DerefTest(s, instruction, closure) ==
  IF _deref_is_callable(instruction, closure) THEN "chain"
  ELSE IF ~PyIndexOk(s.instructions, s.idx + 1) THEN "raise"
  ELSE IF AttrLoad(PyAt(s.instructions, s.idx + 1)) THEN "chain"
  ELSE "value"

\* lines 240-246: LOAD_DEREF of a variable used as data
DoLoadDeref(s, instruction, closure) ==
  IF DerefTest(s, instruction, closure) = "raise" THEN Raise(s, "IndexError")
  ELSE [s EXCEPT !.args = Append(@, Resolve(closure, instruction.argval.s))]

\* lines 253-259: fold the attribute loads that follow into the function
RECURSIVE ChainLoop(_, _)
ChainLoop(s, function) ==
  IF ~(s.idx + 1 < Len(s.instructions))
  THEN [s EXCEPT !.args = Append(@, function)]
  ELSE IF ~PyIndexOk(s.instructions, s.idx + 1) THEN Raise(s, "IndexError")
  ELSE IF AttrLoad(PyAt(s.instructions, s.idx + 1))
       THEN IF ~HasAttr(function, PyAt(s.instructions, s.idx + 1).argval.s)
            THEN Raise(s, "AttributeError")
            ELSE ChainLoop([s EXCEPT !.instructions = PyRemove(@, s.idx + 1)],
                           GetAttr(function, PyAt(s.instructions, s.idx + 1).argval.s))
  ELSE [s EXCEPT !.args = Append(@, function)]

\* lines 247-259: LOAD_METHOD, LOAD_ATTR, LOAD_GLOBAL, LOAD_DEREF
DoLoadChain(s, instruction, closure) ==
  ChainLoop(s, Resolve(closure, instruction.argval.s))

\* lines 275-276: for name in reversed(kwarg_names): kwargs[name] = fn_args.pop()
RECURSIVE KwLoop(_, _, _)
KwLoop(names, fn_args, kwargs) ==
  IF names = <<>> THEN [err |-> "", fn_args |-> fn_args, kwargs |-> kwargs]
  ELSE IF fn_args = <<>>
       THEN [err |-> "IndexError", fn_args |-> fn_args, kwargs |-> kwargs]
  ELSE IF ~Hashable(Head(names))
       THEN [err |-> "TypeError", fn_args |-> Front(fn_args), kwargs |-> kwargs]
  ELSE KwLoop(Tail(names), Front(fn_args), DictSet(kwargs, Head(names), Last(fn_args)))

\* lines 277-284: pop the function, bind the arguments, push the _BoundFn
BindAndPush(s, fn_args, kwargs) ==
  IF s.args = <<>> THEN Raise(s, "IndexError")
  ELSE
    LET function == Last(s.args)
        s1 == PopBefore([s EXCEPT !.args = Front(@)])
    IN IF ~Ok(s1) THEN s1
       ELSE IF ~Callable(function) THEN Raise(s1, "TypeError(signature)")
       ELSE IF \E j \in 1..Len(kwargs) : kwargs[j].k.tag # "str"
            THEN Raise(s1, "TypeError")
       ELSE IF ~BindOk(Signature(function), fn_args, kwargs)
            THEN Raise(s1, "TypeError(bind)")
       ELSE [s1 EXCEPT !.args =
               Append(@, _BoundFn(function,
                                  BoundArguments(Bind(Signature(function), fn_args, kwargs))))]

\* lines 260-284: CALL_METHOD, CALL_FUNCTION, CALL_FUNCTION_KW
DoCall(s, instruction) ==
  IF instruction.opname = "CALL_FUNCTION_KW" /\ s.args = <<>>
  THEN Raise(s, "IndexError")
  ELSE
    LET kwarg_names == IF instruction.opname = "CALL_FUNCTION_KW"
                       THEN Last(s.args) ELSE List(<<>>)
        s1 == IF instruction.opname = "CALL_FUNCTION_KW"
              THEN PopBefore([s EXCEPT !.args = Front(@)]) ELSE s
        r == PopN(s1, instruction.argval.i, <<>>)
    IN IF ~Ok(r.s) THEN r.s
       ELSE IF ~Reversible(kwarg_names) THEN Raise(r.s, "TypeError")
       ELSE LET kw == KwLoop(Reverse(Iter(kwarg_names)), r.acc, <<>>)
            IN IF kw.err # "" THEN Raise(r.s, kw.err)
               ELSE BindAndPush(r.s, kw.fn_args, kw.kwargs)

\* lines 285-299: BINARY_*, INPLACE_*, COMPARE_OP
IsBinary(opname) ==
  opname \in BinaryOpnames \cup InplaceOpnames \cup {"COMPARE_OP"}
\* the same with the two operands taken in the other order
DoBinaryMutantSwapped(s, instruction) ==
  LET command == IF instruction.opname = "COMPARE_OP" THEN instruction.argval.s
                 ELSE strip_prefix(instruction.opname)
  IN IF command \notin DOMAIN _CommandTable THEN Return(s, NoneVal)
     ELSE IF Len(s.args) < 2 THEN Raise(s, "IndexError")
     ELSE PopBefore(PopBefore(
            [s EXCEPT !.args =
               Append(SubSeq(@, 1, Len(@) - 2),
                      _Command(@[Len(@)], @[Len(@) - 1], _CommandTable[command]))]))
DoBinary(s, instruction) ==
  LET command == IF instruction.opname = "COMPARE_OP" THEN instruction.argval.s
                 ELSE strip_prefix(instruction.opname)
  IN IF command \notin DOMAIN _CommandTable THEN Return(s, NoneVal)
     ELSE IF s.args = <<>> THEN Raise(s, "IndexError")
     ELSE LET right == Last(s.args)
              s1 == PopBefore([s EXCEPT !.args = Front(@)])
          IN IF ~Ok(s1) THEN s1
             ELSE IF s1.args = <<>> THEN Raise(s1, "IndexError")
             ELSE LET left == Last(s1.args)
                      s2 == PopBefore([s1 EXCEPT !.args = Front(@)])
                  IN IF ~Ok(s2) THEN s2
                     ELSE [s2 EXCEPT !.args =
                             Append(@, _Command(left, right, _CommandTable[command]))]

\* lines 300-304: POP_JUMP_IF_FALSE
DoPopJump(s) ==
  IF s.args = <<>> THEN Raise(s, "IndexError")
  ELSE PopBefore([s EXCEPT
                    !.conditions = Append(@, _Condition(NoneVal, NoneVal, Last(s.args))),
                    !.args = Front(@)])

\* lines 305-310: any other opcode
DoOther(s) == Return(s, NoneVal)

\* which branch of the if/elif chain of lines 176-310 takes the instruction
Branch(s, instruction, closure) ==
  CASE instruction.opname = "RETURN_VALUE" -> "return"
    [] instruction.opname = "LOAD_CONST" -> "const"
    [] instruction.opname = "LOAD_FAST" -> "fast"
    [] instruction.opname \in {"BUILD_LIST", "BUILD_TUPLE", "BUILD_SET"} -> "seq"
    [] instruction.opname = "BUILD_MAP" -> "map"
    [] instruction.opname = "BUILD_CONST_KEY_MAP" -> "constkeymap"
    [] instruction.opname = "LOAD_DEREF"
         /\ DerefTest(s, instruction, closure) # "chain" -> "deref"
    [] instruction.opname \in {"LOAD_METHOD", "LOAD_ATTR", "LOAD_GLOBAL", "LOAD_DEREF"}
         /\ (instruction.opname = "LOAD_DEREF"
               => DerefTest(s, instruction, closure) = "chain") -> "chain"
    [] instruction.opname \in {"CALL_METHOD", "CALL_FUNCTION", "CALL_FUNCTION_KW"} -> "call"
    [] IsBinary(instruction.opname) -> "binary"
    [] instruction.opname = "POP_JUMP_IF_FALSE" -> "popjump"
    [] OTHER -> "other"

\* one pass through the loop body (lines 175-311), the loop test having passed
\* line 311: idx += 1, reached unless the branch returned, broke or raised
AdvanceMutantStay(r) == r
Advance(r) == IF Ok(r) THEN [r EXCEPT !.idx = @ + 1] ELSE r

Body(s, closure) ==
  IF ~PyIndexOk(s.instructions, s.idx) THEN Raise(s, "IndexError")
  ELSE
    LET instruction == PyAt(s.instructions, s.idx)
        b == Branch(s, instruction, closure)
        r == CASE b = "return" -> DoReturn(s)
               [] b = "const" -> DoLoadConst(s, instruction)
               [] b = "fast" -> DoLoadFast(s, instruction)
               [] b = "seq" -> DoBuildSeq(s, instruction)
               [] b = "map" -> DoBuildMap(s, instruction)
               [] b = "constkeymap" -> DoBuildConstKeyMap(s, instruction)
               [] b = "deref" -> DoLoadDeref(s, instruction, closure)
               [] b = "chain" -> DoLoadChain(s, instruction, closure)
               [] b = "call" -> DoCall(s, instruction)
               [] b = "binary" -> DoBinary(s, instruction)
               [] b = "popjump" -> DoPopJump(s)
               [] OTHER -> DoOther(s)
    IN Advance(r)

\* lines 312-315: the result once the loop has ended
Finish(s) ==
  IF s.conditions # <<>> \/ Len(s.args) # 1 THEN Return(s, NoneVal)
  ELSE Return(s, s.args[1])

\* _parse_instructions as a whole: lines 170-173, the loop, lines 312-315.
\* The record it ends in has ctl = "return" (val is the result) or "raise".
RECURSIVE Walk(_, _)
Walk(s, closure) ==
  IF s.idx < Len(s.instructions)
  THEN CHOOSE out \in {IF r.ctl = "run" THEN Walk(r, closure)
                       ELSE IF r.ctl = "break" THEN Finish([r EXCEPT !.ctl = "run"])
                       ELSE r : r \in {Body(s, closure)}} : TRUE
  ELSE Finish(s)
_parse_instructions(closure_vars, instructions) ==
  Walk(Locals(instructions, <<>>, <<>>, 0), closure_vars)

(***************************************************************************)
(* _trace_value.  A lambda is a value                                       *)
(*   [tag |-> "lambda", var_names, code, closure]                           *)
(* (code.co_varnames, dis.get_instructions(code), inspect.getclosurevars). *)
(***************************************************************************)
Lambda(names, code, closure) ==
  [tag |-> "lambda", var_names |-> names, code |-> code, closure |-> closure]

\* what the objects of the model are: their kind, __module__, __qualname__
\* (for an instance: those of its class), and id()
ObjInfo(v) ==
  CASE v.id = "foo" -> [kind |-> "instance", module |-> "builtins", qualname |-> "module", id |-> 11]
    [] v.id = "foo.bar" -> [kind |-> "function", module |-> "foo", qualname |-> "bar", id |-> 12]
    [] v.id = "foo.baz" -> [kind |-> "function", module |-> "foo", qualname |-> "baz", id |-> 15]
    [] v.id = "foo.bar.baz" ->
         [kind |-> "function", module |-> "foo", qualname |-> "bar.baz", id |-> 18]
    [] v.id = "len" -> [kind |-> "instance", module |-> "builtins",
                        qualname |-> "builtin_function_or_method", id |-> 13]
    [] v.id = "Widget" -> [kind |-> "class", module |-> "app", qualname |-> "Widget", id |-> 14]
    [] v.id = "net" -> [kind |-> "model", module |-> "app", qualname |-> "Net", id |-> 17]
    [] v.id = "an instance of Base" ->
         [kind |-> "instance", module |-> "app", qualname |-> "Base", id |-> 16]
    [] OTHER -> [kind |-> "instance", module |-> "app", qualname |-> "Widget", id |-> 14]

\* str.join(sep, xs)
RECURSIVE Join(_, _)
Join(sep, xs) ==
  IF xs = <<>> THEN ""
  ELSE IF Len(xs) = 1 THEN xs[1]
  ELSE xs[1] \o sep \o Join(sep, Tail(xs))

\* str.join(", ", map(lambda x: "'{}'".format(x), var_names)) or 'no arguments'
Passing(var_names) ==
  IF Join(", ", [j \in 1..Len(var_names) |-> "'" \o var_names[j] \o "'"]) = ""
  THEN "no arguments"
  ELSE Join(", ", [j \in 1..Len(var_names) |-> "'" \o var_names[j] \o "'"])

\* lines 101-107, func_description being rendered as desc
LambdaTextMutantAlwaysTo(var_names, func_description, desc) ==
  "a lambda function passing " \o Passing(var_names) \o " to: " \o desc
LambdaText(var_names, func_description, desc) ==
  IF func_description = NoneVal
  THEN "a lambda function passing " \o Passing(var_names)
  ELSE "a lambda function passing " \o Passing(var_names) \o " to: " \o desc

\* whether _trace_value(inp) ends in an exception raised by a reconstruction
RECURSIVE TraceRaises(_)
TraceRaises(inp) ==
  CASE inp.tag # "str" /\ HasSummary(inp) -> FALSE
    [] inp.tag = "method" -> TraceRaises(inp.self)
    [] inp.tag = "lambda" ->
         LET r == _parse_instructions(inp.closure, inp.code)
         IN r.ctl = "raise" \/ TraceRaises(r.val)
    [] inp.tag = "_Command" -> TraceRaises(inp.left) \/ TraceRaises(inp.right)
    [] inp.tag = "_Condition" ->
         TraceRaises(inp.left) \/ TraceRaises(inp.condition) \/ TraceRaises(inp.right)
    [] inp.tag = "_BoundFn" -> TraceRaises(inp.func) \/ TraceRaises(inp.args)
    [] inp.tag = "BoundArguments" ->
         \E j \in 1..Len(inp.arguments) : TraceRaises(inp.arguments[j].v)
    [] inp.tag \in {"list", "tuple"} ->
         \E j \in 1..Len(inp.items) : TraceRaises(inp.items[j])
    [] inp.tag = "set" -> \E x \in inp.members : TraceRaises(x)
    [] inp.tag = "dict" ->
         \E j \in 1..Len(inp.entries) :
            TraceRaises(inp.entries[j].k) \/ TraceRaises(inp.entries[j].v)
    [] OTHER -> FALSE

\* lines 88-153: the branches after the tests for a str and for a cached
\* summary, for an input whose rendering raises nothing
RECURSIVE _trace_value(_, _, _)
\* lines 138-139 with the value rendered under the flags in force
EntryTextMutantFlags(k, v, wrap_str, include_id) ==
  _trace_value(k, wrap_str, include_id) \o "=" \o _trace_value(v, wrap_str, include_id)
\* lines 138-139: one key=value entry of a mapping
EntryText(k, v, wrap_str, include_id) ==
  _trace_value(k, wrap_str, include_id) \o "=" \o _trace_value(v, TRUE, TRUE)
Untraced(inp, wrap_str, include_id) ==
  CASE inp.tag = "int" -> ToString(inp.i)
    [] inp.tag = "None" -> "None"
    [] inp.tag = "method" ->
         "the '" \o inp.name \o "' method of ("
           \o _trace_value(inp.self, wrap_str, include_id) \o ")"
    [] inp.tag = "lambda" ->
         LET func_description == _parse_instructions(inp.closure, inp.code).val
         IN LambdaText(inp.var_names, func_description,
                       _trace_value(func_description, wrap_str, include_id))
    [] inp.tag = "object" /\ ObjInfo(inp).kind \in {"function", "class"} ->
         ObjInfo(inp).module \o "." \o ObjInfo(inp).qualname
    [] inp.tag = "_Command" ->
         _trace_value(inp.left, wrap_str, include_id) \o " " \o inp.command \o " "
           \o _trace_value(inp.right, wrap_str, include_id)
    [] inp.tag = "_Condition" ->
         _trace_value(inp.left, wrap_str, include_id) \o " if "
           \o _trace_value(inp.condition, wrap_str, include_id) \o " else "
           \o _trace_value(inp.right, wrap_str, include_id)
    [] inp.tag = "_BoundFn" ->
         _trace_value(inp.func, wrap_str, FALSE) \o " invoked with: "
           \o _trace_value(inp.args, FALSE, include_id)
    [] inp.tag = "BoundArguments" ->
         _trace_value(Dict(inp.arguments), FALSE, include_id)
    [] inp.tag = "_VarWrap" -> inp.var
    [] inp.tag = "model" ->
         "a neural network model named '"
           \o (IF inp.model_name = NoneVal THEN "<Unknown Model Name>"
               ELSE inp.model_name.s)
           \o "'"
           \o (IF include_id THEN " (id: " \o ToString(ObjInfo(inp).id) \o ")" ELSE "")
    [] inp.tag = "list" ->
         "[" \o Join(", ", [j \in 1..Len(inp.items) |->
                              _trace_value(inp.items[j], wrap_str, include_id)]) \o "]"
    [] inp.tag = "tuple" ->
         "(" \o Join(", ", [j \in 1..Len(inp.items) |->
                              _trace_value(inp.items[j], wrap_str, include_id)]) \o ")"
    [] inp.tag = "set" ->
         "{" \o Join(", ", [j \in 1..Cardinality(inp.members) |->
                              _trace_value(SetOrder(inp.members)[j], wrap_str, include_id)])
             \o "}"
    [] inp.tag = "dict" ->
         "{" \o Join(", ", [j \in 1..Len(inp.entries) |->
                              EntryText(inp.entries[j].k, inp.entries[j].v,
                                        wrap_str, include_id)]) \o "}"
    [] inp.tag = "tensor" -> inp.shown
    [] OTHER ->
         "an instance of " \o ObjInfo(inp).module \o "." \o ObjInfo(inp).qualname
           \o (IF include_id THEN " (id: " \o ToString(ObjInfo(inp).id) \o ")" ELSE "")

\* the same with the test for a cached summary left out
_trace_valueMutantNoCache(inp, wrap_str, include_id) ==
  IF inp.tag = "str" THEN (IF wrap_str THEN "'" \o inp.s \o "'" ELSE inp.s)
  ELSE Untraced(inp, wrap_str, include_id)

\* lines 81-153, for an input whose rendering raises nothing
_trace_value(inp, wrap_str, include_id) ==
  IF inp.tag = "str" THEN (IF wrap_str THEN "'" \o inp.s \o "'" ELSE inp.s)
  ELSE IF HasSummary(inp) THEN inp.summary
  ELSE Untraced(inp, wrap_str, include_id)

(***************************************************************************)
(* The inputs: the lambdas handed to _trace_value.  Each comes with expr,  *)
(* a description of the expression it was compiled from ("any" when the    *)
(* instruction list is an arbitrary one).                                  *)
(***************************************************************************)
RETURN_VALUE == Instruction("RETURN_VALUE", NoneVal)
LOAD_CONST(c) == Instruction("LOAD_CONST", c)
LOAD_FAST(v) == Instruction("LOAD_FAST", StrV(v))
LOAD_DEREF(v) == Instruction("LOAD_DEREF", StrV(v))
LOAD_GLOBAL(v) == Instruction("LOAD_GLOBAL", StrV(v))
LOAD_ATTR(v) == Instruction("LOAD_ATTR", StrV(v))
LOAD_METHOD(v) == Instruction("LOAD_METHOD", StrV(v))
BUILD(kind, n) == Instruction(kind, IntV(n))
CALL(kind, n) == Instruction(kind, IntV(n))
BINARY_ADD == Instruction("BINARY_ADD", NoneVal)
COMPARE_OP(c) == Instruction("COMPARE_OP", StrV(c))
POP_JUMP_IF_FALSE == Instruction("POP_JUMP_IF_FALSE", NoneVal)
\* an opcode the parser has no branch for
NOP == Instruction("NOP", NoneVal)

\* the instructions the arbitrary lists are made of
Alphabet ==
  {RETURN_VALUE, LOAD_CONST(IntV(1)), LOAD_CONST(NoneVal),
   LOAD_CONST(Tuple(<<StrV("k")>>)), LOAD_FAST("x"),
   BUILD("BUILD_TUPLE", 1), BUILD("BUILD_MAP", 1),
   BUILD("BUILD_CONST_KEY_MAP", 1),
   LOAD_DEREF("n"), LOAD_GLOBAL("foo"), LOAD_ATTR("bar"),
   CALL("CALL_FUNCTION", 1), CALL("CALL_FUNCTION_KW", 1),
   BINARY_ADD, COMPARE_OP("in"), POP_JUMP_IF_FALSE, NOP}

\* the instructions the lists that exercise the scope are made of; the name
\* g is bound nowhere
NameAlphabet ==
  {RETURN_VALUE, LOAD_DEREF("n"), LOAD_DEREF("foo"), LOAD_GLOBAL("foo"),
   LOAD_GLOBAL("n"), LOAD_GLOBAL("len"), LOAD_GLOBAL("g"), LOAD_ATTR("bar"),
   LOAD_METHOD("baz"), BUILD("BUILD_SET", 1), BUILD("BUILD_LIST", 2)}

\* the scopes: in Scope1 every name is bound in one mapping only, in Scope2
\* names are bound in several
Scope1 ==
  ClosureVars("n" :> IntV(2), "foo" :> Obj("foo"), "len" :> Obj("len"))
Scope2 ==
  ClosureVars("foo" :> Obj("foo"), ("foo" :> IntV(7)) @@ ("n" :> Obj("foo.bar")),
              ("n" :> IntV(5)) @@ ("len" :> Obj("len")))
Scopes == {Scope1, Scope2}

\* a lambda: its parameter names, instructions, scope and expression
Input(names, code, closure, e) ==
  [var_names |-> names, code |-> code, closure |-> closure, expr |-> e]

\* operand expressions: the instructions the compiler emits for them and
\* the value they stand for
Operand(code, node) == [code |-> code, node |-> node]
Operands ==
  {Operand(<<LOAD_FAST("x")>>, _VarWrap("x")),
   Operand(<<LOAD_FAST("y")>>, _VarWrap("y")),
   Operand(<<LOAD_CONST(IntV(1))>>, IntV(1)),
   Operand(<<LOAD_CONST(NoneVal)>>, NoneVal),
   Operand(<<LOAD_FAST("x"), LOAD_CONST(IntV(1)), BINARY_ADD>>,
           _Command(_VarWrap("x"), IntV(1), "+"))}
Predicates ==
  {Operand(<<LOAD_FAST("x"), LOAD_FAST("y"), COMPARE_OP(">")>>,
           _Command(_VarWrap("x"), _VarWrap("y"), ">")),
   Operand(<<LOAD_FAST("x")>>, _VarWrap("x"))}

\* lambda x, y: <first> if <predicate> else <second>
Ternary(p, a, b) ==
  Input(<<"x", "y">>,
        p.code \o <<POP_JUMP_IF_FALSE>> \o a.code \o <<RETURN_VALUE>>
          \o b.code \o <<RETURN_VALUE>>,
        Scope1,
        [kind |-> "ternary", predicate |-> p.node, first |-> a.node, second |-> b.node])

\* the branches of the nested ternaries: the operands other than None
Branches == {o \in Operands : o.node # NoneVal}
\* lambda x, y: a if c1 else (b if c2 else c), as Python 3.7 compiles it
NestedInElse(c1, c2, a, b, c) ==
  Input(<<"x", "y">>,
        c1.code \o <<POP_JUMP_IF_FALSE>> \o a.code \o <<RETURN_VALUE>>
          \o c2.code \o <<POP_JUMP_IF_FALSE>> \o b.code \o <<RETURN_VALUE>>
          \o c.code \o <<RETURN_VALUE>>,
        Scope1,
        [kind |-> "nested", shape |-> "else",
         node |-> _Condition(a.node, _Condition(b.node, c.node, c2.node), c1.node)])
\* lambda x, y: (a if c2 else b) if c1 else c, as Python 3.7 compiles it
NestedInThen(c1, c2, a, b, c) ==
  Input(<<"x", "y">>,
        c1.code \o <<POP_JUMP_IF_FALSE>> \o c2.code \o <<POP_JUMP_IF_FALSE>>
          \o a.code \o <<RETURN_VALUE>> \o b.code \o <<RETURN_VALUE>>
          \o c.code \o <<RETURN_VALUE>>,
        Scope1,
        [kind |-> "nested", shape |-> "then",
         node |-> _Condition(_Condition(a.node, b.node, c2.node), c.node, c1.node)])

\* the binary, in-place and comparison operators: the instruction the
\* compiler emits for each and the operator as written in the source ("" for
\* the comparisons that have no entry in _CommandTable)
Operator(opname, argval, written) ==
  [instruction |-> Instruction(opname, argval), operator |-> written]
Operators ==
  {Operator("BINARY_POWER", NoneVal, "**"), Operator("BINARY_MULTIPLY", NoneVal, "*"),
   Operator("BINARY_MATRIX_MULTIPLY", NoneVal, "@"),
   Operator("BINARY_FLOOR_DIVIDE", NoneVal, "//"),
   Operator("BINARY_TRUE_DIVIDE", NoneVal, "/"), Operator("BINARY_MODULO", NoneVal, "%"),
   Operator("BINARY_ADD", NoneVal, "+"), Operator("BINARY_SUBTRACT", NoneVal, "-"),
   Operator("BINARY_SUBSCR", NoneVal, "[]"), Operator("BINARY_LSHIFT", NoneVal, "<<"),
   Operator("BINARY_RSHIFT", NoneVal, ">>"), Operator("BINARY_AND", NoneVal, "&"),
   Operator("BINARY_XOR", NoneVal, "^"), Operator("BINARY_OR", NoneVal, "|"),
   Operator("INPLACE_POWER", NoneVal, "**"), Operator("INPLACE_ADD", NoneVal, "+"),
   Operator("INPLACE_SUBTRACT", NoneVal, "-"), Operator("INPLACE_OR", NoneVal, "|"),
   Operator("COMPARE_OP", StrV(">"), ">"), Operator("COMPARE_OP", StrV("<"), "<"),
   Operator("COMPARE_OP", StrV("=="), "=="), Operator("COMPARE_OP", StrV("!="), "!="),
   Operator("COMPARE_OP", StrV("<="), "<="), Operator("COMPARE_OP", StrV(">="), ">="),
   Operator("COMPARE_OP", StrV("in"), ""), Operator("COMPARE_OP", StrV("not in"), ""),
   Operator("COMPARE_OP", StrV("is"), ""), Operator("COMPARE_OP", StrV("is not"), "")}

\* lambda x: x <operator> 1
Arithmetic(b) ==
  Input(<<"x">>,
        <<LOAD_FAST("x"), LOAD_CONST(IntV(1)), b.instruction, RETURN_VALUE>>,
        Scope1,
        [kind |-> "binary", operator |-> b.operator])

\* the values a call expression pushes as arguments, and the keyword names
\* it may give to the last of them
Pushed == {IntV(1), IntV(2), _VarWrap("x")}
KeywordNames ==
  {<<>>, <<"k">>, <<"a">>, <<"a", "k">>, <<"k", "a">>, <<"b", "k">>, <<"k", "b", "a">>,
   <<"z">>}
PushCode(v) == IF v.tag = "_VarWrap" THEN LOAD_FAST(v.var) ELSE LOAD_CONST(v)

\* lambda x: foo.<f>(<pushed>), the last Len(names) arguments given by
\* keyword, compiled as Python 3.7 does: with keywords CALL_FUNCTION_KW after
\* the tuple of names, without them LOAD_METHOD and CALL_METHOD
CallExpr(f, pushed, names) ==
  Input(<<"x">>,
        <<LOAD_GLOBAL("foo")>>
          \o (IF names = <<>> THEN <<LOAD_METHOD(f)>> ELSE <<LOAD_ATTR(f)>>)
          \o [j \in 1..Len(pushed) |-> PushCode(pushed[j])]
          \o (IF names = <<>> THEN <<CALL("CALL_METHOD", Len(pushed))>>
              ELSE <<LOAD_CONST(Tuple([j \in 1..Len(names) |-> StrV(names[j])])),
                     CALL("CALL_FUNCTION_KW", Len(pushed))>>)
          \o <<RETURN_VALUE>>,
        Scope1,
        [kind |-> "call", callee |-> Obj("foo." \o f), pushed |-> pushed,
         names |-> names])

(***************************************************************************)
(* traceable.  The decorated classes of the model are                      *)
(*   class Base:          def __init__(self, name): self.name = name       *)
(*   class Widget(Base):  def __init__(self, name, count=3):               *)
(*                            super().__init__(name); self.count = count   *)
(* Neither defines fe_summary or fe_state of its own.  An instance is its  *)
(* __dict__, a mapping from attribute names to values.                     *)
(***************************************************************************)
WL == "_fe_state_whitelist"
BL == "_fe_state_blacklist"
SUM == "_fe_traceability_summary"
Bookkeeping == {WL, BL, SUM}

Classes == {"Base", "Widget"}
\* the classes __init__ is looked up in, most derived first
Mro(c) == IF c = "Widget" THEN <<"Widget", "Base">> ELSE <<"Base">>
\* the instance of class c as a value
Instance(c) == Obj("an instance of " \o c)
\* inspect.signature of the original __init__ of class c
InitSignature(c) ==
  IF c = "Widget"
  THEN <<Param("self", "positional_or_keyword", Empty),
         Param("name", "positional_or_keyword", Empty),
         Param("count", "positional_or_keyword", IntV(3))>>
  ELSE <<Param("self", "positional_or_keyword", Empty),
         Param("name", "positional_or_keyword", Empty)>>

\* d[k] = v on a mapping given as a TLA+ function
Put(d, k, v) == [x \in DOMAIN d \cup {k} |-> IF x = k THEN v ELSE d[x]]
\* del d[k]
Drop(d, k) == [x \in DOMAIN d \ {k} |-> d[x]]
\* the value bound to name in the entries es
Lookup(es, name) == es[CHOOSE j \in 1..Len(es) : es[j].k = StrV(name)].v

\* lines 330-335: the lists as tuples, and the error when both are given
AsTuple(x) == IF x.tag = "str" THEN Tuple(<<x>>) ELSE x
traceableMutantNoCheck(whitelist, blacklist) ==
  [raised |-> "", whitelist |-> AsTuple(whitelist), blacklist |-> AsTuple(blacklist)]
traceable(whitelist, blacklist) ==
  IF AsTuple(whitelist).items # <<>> /\ AsTuple(blacklist).items # <<>>
  THEN [raised |-> "ValueError", whitelist |-> AsTuple(whitelist),
        blacklist |-> AsTuple(blacklist)]
  ELSE [raised |-> "", whitelist |-> AsTuple(whitelist), blacklist |-> AsTuple(blacklist)]

\* a class not defined yet, and a class defined without the decorator
Undefined == [defined |-> FALSE, decorated |-> FALSE, whitelist |-> Tuple(<<>>),
              blacklist |-> Tuple(<<>>), fe_state |-> FALSE, fe_summary |-> FALSE]
Plain == [Undefined EXCEPT !.defined = TRUE]
\* whether class c has (or inherits) the attribute attr, table being the
\* classes defined so far
ClassHas(table, c, attr) ==
  \E j \in 1..Len(Mro(c)) : table[Mro(c)[j]][attr]
\* the class whose fe_state an instance of c runs
StateOwner(table, c) ==
  Mro(c)[CHOOSE j \in 1..Len(Mro(c)) :
           /\ table[Mro(c)[j]].fe_state
           /\ \A i \in 1..(j - 1) : ~table[Mro(c)[i]].fe_state]

\* lines 337-391: make_traceable(cls), what it sets on the class
make_traceable(table, c, whitelist, blacklist) ==
  [defined |-> TRUE, decorated |-> TRUE, whitelist |-> whitelist, blacklist |-> blacklist,
   fe_summary |-> ~ClassHas(table, c, "fe_summary"),
   fe_state |-> (whitelist.items # <<>> \/ blacklist.items # <<>>
                   \/ ~ClassHas(table, c, "fe_state"))]

\* what a call of __init__ has come to: the instance's __dict__, what
\* happened in order, and the exception that ended it ("" when none did)
Event(ev, c, pos, kw) == [ev |-> ev, cls |-> c, pos |-> pos, kw |-> kw]
Outcome(d, evs, raised) == [dict |-> d, events |-> evs, raised |-> raised]

\* the arguments as bound by lines 346-349: the receiver left out
BoundArgsMutantWithSelf(c, self, pos, kw) == Bind(InitSignature(c), <<self>> \o pos, kw)
BoundArgs(c, self, pos, kw) == Tail(Bind(InitSignature(c), <<self>> \o pos, kw))

\* lines 341-344: the lists are recorded unless recorded already
RecordListsMutantOverwrite(d, whitelist, blacklist) ==
  Put(Put(d, WL, whitelist), BL, Tuple(blacklist.items \o <<StrV(WL), StrV(BL)>>))
RecordLists(d, whitelist, blacklist) ==
  LET d1 == IF WL \in DOMAIN d THEN d ELSE Put(d, WL, whitelist)
  IN IF BL \in DOMAIN d1 THEN d1
     ELSE Put(d1, BL, Tuple(blacklist.items \o <<StrV(WL), StrV(BL)>>))

\* line 345: the test that guards the binding and the rendering
SummaryCachedMutantNever(d) == FALSE
SummaryCached(d) == SUM \in DOMAIN d

\* lines 345-350, d being the instance's __dict__ after lines 341-344 and
\* entered the events so far
BindAndTrace(c, self, d, entered, pos, kw) ==
  IF SummaryCached(d) THEN Outcome(d, entered, "")
  ELSE IF ~BindOk(InitSignature(c), <<self>> \o pos, kw)
  THEN Outcome(d, Append(entered, Event("bind", c, pos, kw)), "TypeError(bind)")
  ELSE IF TraceRaises(_BoundFn(self, Dict(BoundArgs(c, self, pos, kw))))
  THEN Outcome(d, entered \o <<Event("bind", c, pos, kw),
                               Event("_trace_value", c, pos, kw)>>,
               "ReconstructionError")
  ELSE Outcome(Put(d, SUM,
                   StrV(_trace_value(_BoundFn(self, Dict(BoundArgs(c, self, pos, kw))),
                                     TRUE, TRUE))),
               entered \o <<Event("bind", c, pos, kw), Event("_trace_value", c, pos, kw)>>,
               "")

\* lines 340-350: the wrapper put in place of the __init__ of class c, up to
\* its call of the original __init__.  (Each intermediate value is bound by
\* a quantifier so that it is evaluated once.)
init(table, c, self, o, pos, kw) ==
  CHOOSE out \in {BindAndTrace(c, self, d, Append(o.events, Event("init", c, pos, kw)),
                               pos, kw) :
                    d \in {RecordLists(o.dict, table[c].whitelist, table[c].blacklist)}} :
    TRUE

\* the original __init__ of Base: self.name = name
BaseInit(table, self, o, pos, kw) ==
  IF ~BindOk(InitSignature("Base"), <<self>> \o pos, kw)
  THEN Outcome(o.dict, o.events, "TypeError(call)")
  ELSE Outcome(Put(o.dict, "name", Lookup(BoundArgs("Base", self, pos, kw), "name")),
               Append(o.events, Event("base_init", "Base", pos, kw)), "")

\* Base.__init__(self, *pos, **kw) as looked up on the class: the wrapper and
\* (line 351) the original, or the original alone
CallBase(table, self, o, pos, kw) ==
  IF ~table["Base"].decorated THEN BaseInit(table, self, o, pos, kw)
  ELSE CHOOSE out \in {IF w.raised # "" THEN w ELSE BaseInit(table, self, w, pos, kw) :
                         w \in {init(table, "Base", self, o, pos, kw)}} : TRUE

\* the rest of the original __init__ of Widget after super().__init__(name)
\* has ended in r: self.count = count
SetCount(r, count) ==
  IF r.raised # "" THEN r ELSE Outcome(Put(r.dict, "count", count), r.events, "")

\* the original __init__ of Widget: super().__init__(name); self.count = count
WidgetInit(table, self, o, pos, kw) ==
  IF ~BindOk(InitSignature("Widget"), <<self>> \o pos, kw)
  THEN Outcome(o.dict, o.events, "TypeError(call)")
  ELSE CHOOSE out \in
         {SetCount(r, Lookup(BoundArgs("Widget", self, pos, kw), "count")) :
            r \in {CallBase(table, self,
                            Outcome(o.dict,
                                    Append(o.events, Event("base_init", "Widget", pos, kw)),
                                    ""),
                            <<Lookup(BoundArgs("Widget", self, pos, kw), "name")>>,
                            <<>>)}} : TRUE

\* Widget.__init__(self, *pos, **kw) as looked up on the class
CallWidget(table, self, o, pos, kw) ==
  IF ~table["Widget"].decorated THEN WidgetInit(table, self, o, pos, kw)
  ELSE CHOOSE out \in {IF w.raised # "" THEN w ELSE WidgetInit(table, self, w, pos, kw) :
                         w \in {init(table, "Widget", self, o, pos, kw)}} : TRUE

CallInit(table, c, self, o, pos, kw) ==
  IF c = "Widget" THEN CallWidget(table, self, o, pos, kw)
  ELSE CallBase(table, self, o, pos, kw)

\* lines 355-364: fe_summary
fe_summary(d) == "This experiment used " \o d[SUM].s

fe_stateMutantKeepAll(d, whitelist) ==
  IF d[WL].items # <<>>
       /\ \E j \in 1..Len(whitelist.items) : whitelist.items[j].s \notin DOMAIN d
  THEN [raised |-> "KeyError", state |-> <<>>]
  ELSE [raised |-> "",
        state |-> IF d[WL].items # <<>>
                  THEN [k \in {whitelist.items[j].s : j \in 1..Len(whitelist.items)} |-> d[k]]
                  ELSE d]

\* lines 370-384: fe_state, whitelist being the list of the class that
\* defined it.  The result is [raised, state].
fe_state(d, whitelist) ==
  IF d[WL].items # <<>>
       /\ \E j \in 1..Len(whitelist.items) : whitelist.items[j].s \notin DOMAIN d
  THEN [raised |-> "KeyError", state |-> <<>>]
  ELSE LET state_dict ==
             IF d[WL].items # <<>>
             THEN [k \in {whitelist.items[j].s : j \in 1..Len(whitelist.items)} |-> d[k]]
             ELSE d
       IN [raised |-> "",
           state |-> [k \in DOMAIN state_dict
                              \ {d[BL].items[j].s : j \in 1..Len(d[BL].items)} |->
                        state_dict[k]]]

\* the lists a class may be decorated with
ListChoices == {Tuple(<<>>), StrV("secret"), Tuple(<<StrV("name"), StrV(WL)>>)}

\* lambdas given as constructor arguments: lambda x: x + 1, and lambda: g.bar
\* where g is bound nowhere
Lambda1 ==
  Lambda(<<"x">>, <<LOAD_FAST("x"), LOAD_CONST(IntV(1)), BINARY_ADD, RETURN_VALUE>>, Scope1)
Lambda2 == Lambda(<<>>, <<LOAD_GLOBAL("g"), LOAD_ATTR("bar"), RETURN_VALUE>>, Scope1)

\* the argument lists __init__ is called with
CallArgs ==
  {[pos |-> <<>>, kw |-> <<Entry(StrV("name"), StrV("w")), Entry(StrV("count"), IntV(3))>>],
   [pos |-> <<StrV("w")>>, kw |-> <<>>],
   [pos |-> <<StrV("v"), IntV(1)>>, kw |-> <<>>],
   [pos |-> <<>>, kw |-> <<>>],
   [pos |-> <<Lambda1>>, kw |-> <<>>],
   [pos |-> <<Lambda2>>, kw |-> <<>>]}

\* values of every kind _trace_value tells apart, none carrying a summary
Kinds ==
  {IntV(1), NoneVal, Method("fit", Obj("an instance of Base")),
   Model("net", StrV("lenet")), Model("net", NoneVal),
   List(<<IntV(1), StrV("a")>>), Tuple(<<StrV("a")>>), SetOf({StrV("a")}),
   Dict(<<Entry(StrV("a"), StrV("b"))>>), Obj("an instance of Widget"),
   Obj("foo.bar"), Lambda1, Lambda2, Tensor("[1 2]"), _VarWrap("x"),
   _BoundFn(Obj("foo.bar"), BoundArguments(<<Entry(StrV("a"), StrV("w"))>>))}
\* mappings, bare and inside other values
Mappings ==
  {Dict(<<Entry(StrV("a"), Dict(<<Entry(StrV("b"), StrV("c"))>>))>>),
   Dict(<<Entry(IntV(1), Obj("an instance of Widget")), Entry(StrV("k"), NoneVal)>>),
   List(<<Dict(<<Entry(StrV("k"), Obj("an instance of Widget"))>>)>>),
   Tuple(<<StrV("t"), Dict(<<Entry(StrV("k"), StrV("v"))>>)>>),
   Dict(<<>>)}
\* the values handed to _trace_value directly: a str, the kinds with and
\* without a cached summary, values holding such values, the mappings, and
\* a list whose rendering raises
TraceInputs ==
  {StrV("a")} \cup Kinds \cup {Traced(v, "the cached summary") : v \in Kinds}
    \cup {List(<<Traced(Obj("an instance of Widget"), "the cached summary"), IntV(1)>>),
          Method("fit", Traced(Obj("an instance of Base"), "the cached summary")),
          List(<<Lambda2>>)}
    \cup Mappings

\* the attributes user code sets and deletes on the instance
UserAttrs == {"name", "count", "secret"}

(***************************************************************************)
(* State.                                                                  *)
(***************************************************************************)
VARIABLES
  var_names,            \* _trace_value: code.co_varnames of the lambda
  given,                \* _trace_value: the instruction list handed over
  closure_vars,         \* _trace_value: inspect.getclosurevars(inp)
  expr,                 \* the expression the lambda was compiled from
  instructions,         \* _parse_instructions: its working copy of the list
  conditions,           \* _parse_instructions: the pending ternaries
  args,                 \* _parse_instructions: the operand stack
  idx,                  \* _parse_instructions: the walk index
  pc,                   \* where the rendering of the lambda stands
  func_description,     \* _trace_value: what _parse_instructions returned
  err,                  \* the exception that ended the rendering, if any
  text,                 \* what _trace_value returned
  classes,              \* the classes: what make_traceable has set on each
  phase,                \* "define" while the classes are defined, then "ready",
                        \* or "failed" when a decorator raised
  self_class,           \* the class of the instance ("" before it is created)
  self_dict,            \* the __dict__ of the instance
  events,               \* what the last operation did, if a decoration or a
                        \* call of __init__
  inits,                \* the calls of __init__ made on the instance
  last,                 \* the last operation on the classes or the instance
  raised,               \* the exception that operation raised ("" if none)
  returned,             \* what it returned, if a call of fe_state or fe_summary
  value,                \* a value handed to _trace_value directly
  wrap,                 \* the wrap_str it is handed with
  with_id,              \* the include_id it is handed with
  results               \* how each call of _trace_value on it ended

parseVars ==
  <<var_names, given, closure_vars, expr, instructions, conditions, args, idx,
    pc, func_description, err, text>>
wrapVars ==
  <<classes, phase, self_class, self_dict, events, inits, last, raised, returned>>
traceVars == <<value, wrap, with_id, results>>
vars == <<parseVars, wrapVars, traceVars>>

EmptyDict == [k \in {} |-> NoneVal]

\* no lambda is being rendered
NoLambda ==
  /\ var_names = <<>>
  /\ given = <<>>
  /\ closure_vars = Scope1
  /\ expr = [kind |-> "any"]
  /\ instructions = <<>>
  /\ conditions = <<>>
  /\ args = <<>>
  /\ idx = 0
  /\ pc = "idle"
  /\ func_description = NoneVal
  /\ err = ""
  /\ text = ""

\* no class is defined
NoClasses ==
  /\ classes = [c \in Classes |-> Undefined]
  /\ phase = "define"
  /\ self_class = ""
  /\ self_dict = EmptyDict
  /\ events = <<>>
  /\ inits = 0
  /\ last = ""
  /\ raised = ""
  /\ returned = NoneVal

\* no value is handed to _trace_value directly
NoTrace ==
  /\ value = NoneVal
  /\ wrap = TRUE
  /\ with_id = TRUE
  /\ results = <<>>

\* the locals of _parse_instructions as a record
Now == Locals(instructions, conditions, args, idx)

\* _trace_value is handed the lambda l
Given(l) ==
  /\ var_names = l.var_names
  /\ given = l.code
  /\ closure_vars = l.closure
  /\ expr = l.expr
  /\ instructions = <<>>
  /\ conditions = <<>>
  /\ args = <<>>
  /\ idx = 0
  /\ pc = "call"
  /\ func_description = NoneVal
  /\ err = ""
  /\ text = ""
  /\ NoClasses
  /\ NoTrace

\* the operand expressions a display is built of, as the compiler emits
\* them: x, 1 and foo.bar(x)
Elements ==
  {<<LOAD_FAST("x")>>, <<LOAD_CONST(IntV(1))>>,
   <<LOAD_GLOBAL("foo"), LOAD_METHOD("bar"), LOAD_FAST("x"), CALL("CALL_METHOD", 1)>>}
Builds == {"BUILD_LIST", "BUILD_TUPLE", "BUILD_SET", "BUILD_MAP", "BUILD_CONST_KEY_MAP"}
\* lambda x, y: [a, b]  (a, b)  {a, b}  {a: 1, b: 2}  {"k": a, "j": b}, and
\* the same as the second member of a pair: lambda x, y: (y, [a, b]) ...
Display(opname, a, b, paired) ==
  Input(<<"x", "y">>,
        (IF paired THEN <<LOAD_FAST("y")>> ELSE <<>>)
          \o (CASE opname = "BUILD_MAP" ->
                     a \o <<LOAD_CONST(IntV(1))>> \o b \o <<LOAD_CONST(IntV(2))>>
                [] opname = "BUILD_CONST_KEY_MAP" ->
                     a \o b \o <<LOAD_CONST(Tuple(<<StrV("k"), StrV("j")>>))>>
                [] OTHER -> a \o b)
          \o <<BUILD(opname, 2)>>
          \o (IF paired THEN <<BUILD("BUILD_TUPLE", 2)>> ELSE <<>>)
          \o <<RETURN_VALUE>>,
        Scope1,
        [kind |-> "display", opname |-> opname, paired |-> paired])

Init ==
  \/ \E opname \in Builds, a \in Elements, b \in Elements, paired \in BOOLEAN :
        Given(Display(opname, a, b, paired))
  \/ \E m \in 0..MaxLen : \E c \in [1..m -> Alphabet] :
        Given(Input(<<"x">>, c, Scope1, [kind |-> "any"]))
  \/ \E m \in 0..MaxLen : \E c \in [1..m -> NameAlphabet] : \E sc \in Scopes :
        Given(Input(<<>>, c, sc, [kind |-> "any"]))
  \/ \E p \in Predicates, a \in Operands, b \in Operands : Given(Ternary(p, a, b))
  \/ \E b \in Operators : Given(Arithmetic(b))
  \/ \E c1 \in Predicates, c2 \in Predicates, a \in Branches, b \in Branches,
        c \in Branches :
        \/ Given(NestedInElse(c1, c2, a, b, c))
        \/ Given(NestedInThen(c1, c2, a, b, c))
  \/ \E f \in {"bar", "baz"}, m \in 0..MaxArgs, names \in KeywordNames :
        \E pushed \in [1..m -> Pushed] :
           /\ Len(names) <= m
           /\ Given(CallExpr(f, pushed, names))

\* line 170: the list the local name instructions is bound to from then on,
\* a new list of the same instructions and not the caller's list
ShallowCopyMutantSameList(xs) == [items |-> xs, own |-> FALSE]
ShallowCopy(xs) == [items |-> xs, own |-> TRUE]
\* the caller's list once the working list holds ins: the working list's
\* pops show in it only if the two are one list
CallersList(caller, ins) == IF ShallowCopy(caller).own THEN caller ELSE ins

\* line 100 and lines 170-173: the call, the copy of the list, the locals
Enter ==
  /\ pc = "call"
  /\ instructions' = ShallowCopy(given).items
  /\ conditions' = <<>>
  /\ args' = <<>>
  /\ idx' = 0
  /\ pc' = "loop"
  /\ UNCHANGED <<traceVars, wrapVars, var_names, given, closure_vars, expr, func_description, err, text>>

\* the state after a pass through the loop body that ended as r says
Becomes(r) ==
  /\ instructions' = r.instructions
  /\ conditions' = r.conditions
  /\ args' = r.args
  /\ idx' = r.idx
  /\ pc' = CASE r.ctl = "run" -> "loop"
             [] r.ctl = "break" -> "final"
             [] r.ctl = "return" -> "returned"
             [] OTHER -> "raised"
  /\ func_description' = IF r.ctl = "return" THEN r.val ELSE func_description
  /\ err' = IF r.ctl = "raise" THEN r.err ELSE err
  /\ given' = CallersList(given, r.instructions)
  /\ UNCHANGED <<traceVars, wrapVars, var_names, closure_vars, expr, text>>

\* lines 174-175 pass and the instruction goes to branch b
Takes(b) ==
  /\ pc = "loop"
  /\ idx < Len(instructions)
  /\ PyIndexOk(instructions, idx)
  /\ Branch(Now, PyAt(instructions, idx), closure_vars) = b

ReturnValue ==
  /\ Takes("return")
  /\ Becomes(Body(Now, closure_vars))
LoadConst ==
  /\ Takes("const")
  /\ Becomes(Body(Now, closure_vars))
LoadFast ==
  /\ Takes("fast")
  /\ Becomes(Body(Now, closure_vars))
BuildSeq ==
  /\ Takes("seq")
  /\ Becomes(Body(Now, closure_vars))
BuildMap ==
  /\ Takes("map")
  /\ Becomes(Body(Now, closure_vars))
BuildConstKeyMap ==
  /\ Takes("constkeymap")
  /\ Becomes(Body(Now, closure_vars))
LoadDeref ==
  /\ Takes("deref")
  /\ Becomes(Body(Now, closure_vars))
LoadChain ==
  /\ Takes("chain")
  /\ Becomes(Body(Now, closure_vars))
Call ==
  /\ Takes("call")
  /\ Becomes(Body(Now, closure_vars))
Binary ==
  /\ Takes("binary")
  /\ Becomes(Body(Now, closure_vars))
PopJump ==
  /\ Takes("popjump")
  /\ Becomes(Body(Now, closure_vars))
Other ==
  /\ Takes("other")
  /\ Becomes(Body(Now, closure_vars))

\* line 174: the loop test fails
LoopEnd ==
  /\ pc = "loop"
  /\ ~(idx < Len(instructions))
  /\ pc' = "final"
  /\ UNCHANGED <<traceVars, wrapVars, var_names, given, closure_vars, expr, instructions, conditions,
                 args, idx, func_description, err, text>>

\* lines 312-315
Final ==
  /\ pc = "final"
  /\ func_description' = Finish(Now).val
  /\ pc' = "returned"
  /\ UNCHANGED <<traceVars, wrapVars, var_names, given, closure_vars, expr, instructions, conditions,
                 args, idx, err, text>>

\* lines 101-107: back in _trace_value
Render ==
  /\ pc = "returned"
  /\ text' = LambdaText(var_names, func_description,
                        _trace_value(func_description, TRUE, TRUE))
  /\ pc' = "rendered"
  /\ UNCHANGED <<traceVars, wrapVars, var_names, given, closure_vars, expr, instructions, conditions,
                 args, idx, func_description, err>>

Next ==
  \/ Enter
  \/ ReturnValue
  \/ LoadConst
  \/ LoadFast
  \/ BuildSeq
  \/ BuildMap
  \/ BuildConstKeyMap
  \/ LoadDeref
  \/ LoadChain
  \/ Call
  \/ Binary
  \/ PopJump
  \/ Other
  \/ LoopEnd
  \/ Final
  \/ Render

Spec == Init /\ [][Next]_vars
\* the call is synchronous: a step that can be taken is taken.  The lambdas
\* are the expressions of every family and lists that end the walk in each
\* of its ways.
Fragments ==
  {<<>>, <<NOP>>, <<LOAD_CONST(IntV(1))>>, <<LOAD_DEREF("n"), RETURN_VALUE>>,
   <<LOAD_DEREF("n")>>, <<LOAD_GLOBAL("g"), LOAD_ATTR("bar")>>, <<BINARY_ADD>>,
   <<LOAD_DEREF("foo"), LOAD_ATTR("bar"), LOAD_METHOD("baz"), RETURN_VALUE>>,
   <<RETURN_VALUE, RETURN_VALUE>>, <<LOAD_FAST("x"), POP_JUMP_IF_FALSE, RETURN_VALUE>>}
Leaves == {o \in Branches : Len(o.code) = 1}
InitFair ==
  \/ \E opname \in Builds, a \in Elements, b \in Elements, paired \in BOOLEAN :
        Given(Display(opname, a, b, paired))
  \/ \E c \in Fragments, sc \in Scopes : Given(Input(<<"x">>, c, sc, [kind |-> "any"]))
  \/ \E p \in Predicates, a \in Operands, b \in Operands : Given(Ternary(p, a, b))
  \/ \E b \in Operators : Given(Arithmetic(b))
  \/ \E c1 \in Predicates, c2 \in Predicates, a \in Leaves, b \in Leaves, c \in Leaves :
        \/ Given(NestedInElse(c1, c2, a, b, c))
        \/ Given(NestedInThen(c1, c2, a, b, c))
SpecFair == InitFair /\ [][Next]_vars /\ WF_vars(Next)

(***************************************************************************)
(* The classes and the instance.                                           *)
(***************************************************************************)
\* the class the next class statement defines
NextClass == IF ~classes["Base"].defined THEN "Base" ELSE "Widget"
AfterClass(c) == IF c = "Widget" THEN "ready" ELSE "define"

\* class Base: ... without the decorator
DefinePlain ==
  /\ phase = "define"
  /\ NextClass = "Base"
  /\ classes' = [classes EXCEPT !["Base"] = Plain]
  /\ phase' = AfterClass("Base")
  /\ last' = "class"
  /\ raised' = ""
  /\ events' = <<>>
  /\ returned' = NoneVal
  /\ UNCHANGED <<traceVars, parseVars, self_class, self_dict, inits>>

\* @traceable(whitelist=wl, blacklist=bl) class <NextClass>: ...
Decorate ==
  /\ phase = "define"
  /\ \E wl \in ListChoices, bl \in ListChoices :
       LET t == traceable(wl, bl)
       IN /\ raised' = t.raised
          /\ IF t.raised # ""
             THEN /\ phase' = "failed"
                  /\ UNCHANGED classes
             ELSE /\ phase' = AfterClass(NextClass)
                  /\ classes' = [classes EXCEPT ![NextClass] =
                                   make_traceable(classes, NextClass, t.whitelist,
                                                  t.blacklist)]
          /\ events' = <<Event("traceable", NextClass, <<wl, bl>>, <<>>)>>
  /\ last' = "traceable"
  /\ returned' = NoneVal
  /\ UNCHANGED <<traceVars, parseVars, self_class, self_dict, inits>>

\* c.__new__(c)
New ==
  /\ phase = "ready"
  /\ self_class = ""
  /\ \E c \in Classes :
       /\ classes[c].decorated
       /\ self_class' = c
  /\ self_dict' = EmptyDict
  /\ last' = "__new__"
  /\ raised' = ""
  /\ events' = <<>>
  /\ returned' = NoneVal
  /\ UNCHANGED <<traceVars, parseVars, classes, phase, inits>>

\* k.__init__(self, *pos, **kw), k the class of the instance or a base of it
Construct ==
  /\ phase = "ready"
  /\ self_class # ""
  /\ inits < MaxInits
  /\ \E j \in 1..Len(Mro(self_class)), a \in CallArgs :
       \E o \in {CallInit(classes, Mro(self_class)[j], Instance(self_class),
                          Outcome(self_dict, <<>>, ""), a.pos, a.kw)} :
          /\ self_dict' = o.dict
          /\ events' = o.events
          /\ raised' = o.raised
  /\ inits' = inits + 1
  /\ last' = "__init__"
  /\ returned' = NoneVal
  /\ UNCHANGED <<traceVars, parseVars, classes, phase, self_class>>

\* self.secret = 0
SetAttr ==
  /\ phase = "ready"
  /\ self_class # ""
  /\ "secret" \notin DOMAIN self_dict
  /\ self_dict' = Put(self_dict, "secret", IntV(0))
  /\ last' = "setattr"
  /\ raised' = ""
  /\ events' = <<>>
  /\ returned' = NoneVal
  /\ UNCHANGED <<traceVars, parseVars, classes, phase, self_class, inits>>

\* del self.<a>
DelAttr ==
  /\ phase = "ready"
  /\ self_class # ""
  /\ \E a \in UserAttrs :
       /\ a \in DOMAIN self_dict
       /\ self_dict' = Drop(self_dict, a)
  /\ last' = "delattr"
  /\ raised' = ""
  /\ events' = <<>>
  /\ returned' = NoneVal
  /\ UNCHANGED <<traceVars, parseVars, classes, phase, self_class, inits>>

\* self.fe_state()
State ==
  /\ phase = "ready"
  /\ self_class # ""
  /\ IF WL \notin DOMAIN self_dict
     THEN /\ raised' = "AttributeError"
          /\ returned' = NoneVal
     ELSE LET r == fe_state(self_dict,
                            classes[StateOwner(classes, self_class)].whitelist)
          IN /\ raised' = r.raised
             /\ returned' = r.state
  /\ last' = "fe_state"
  /\ events' = <<>>
  /\ UNCHANGED <<traceVars, parseVars, classes, phase, self_class, self_dict, inits>>

\* self.fe_summary()
Summary ==
  /\ phase = "ready"
  /\ self_class # ""
  /\ IF SUM \notin DOMAIN self_dict
     THEN /\ raised' = "AttributeError"
          /\ returned' = NoneVal
     ELSE /\ raised' = ""
          /\ returned' = StrV(fe_summary(self_dict))
  /\ last' = "fe_summary"
  /\ events' = <<>>
  /\ UNCHANGED <<traceVars, parseVars, classes, phase, self_class, self_dict, inits>>

InitWrap == NoLambda /\ NoClasses /\ NoTrace

NextWrap ==
  \/ DefinePlain
  \/ Decorate
  \/ New
  \/ Construct
  \/ SetAttr
  \/ DelAttr
  \/ State
  \/ Summary

SpecWrap == InitWrap /\ [][NextWrap]_vars

(***************************************************************************)
(* _trace_value called on a value directly.                                *)
(***************************************************************************)
\* how a call of _trace_value ended
Result(r, txt) == [raised |-> r, text |-> txt]

\* _trace_value(value, wrap, with_id)
Trace ==
  /\ Len(results) < MaxRenders
  /\ results' = Append(results,
                       IF TraceRaises(value) THEN Result(TRUE, "")
                       ELSE Result(FALSE, _trace_value(value, wrap, with_id)))
  /\ UNCHANGED <<parseVars, wrapVars, value, wrap, with_id>>

InitTrace ==
  /\ NoLambda
  /\ NoClasses
  /\ value \in TraceInputs
  /\ wrap \in BOOLEAN
  /\ with_id \in BOOLEAN
  /\ results = <<>>

NextTrace == Trace

SpecTrace == InitTrace /\ [][NextTrace]_vars

(***************************************************************************)
(* Properties of the reconstruction (specification Spec).                  *)
(***************************************************************************)
\* the rendering of the lambda is over: _parse_instructions has returned
Reconstructed == pc \in {"returned", "rendered"}

\* the walk stopped at an instruction the if/elif chain has no branch for
StoppedAtUnsupported ==
  /\ Reconstructed
  /\ idx < Len(instructions)
  /\ PyIndexOk(instructions, idx)
  /\ Branch(Now, PyAt(instructions, idx), closure_vars) = "other"

\* "a lambda function passing <params>" written out for the parameter lists
\* of the lambdas of Init
GenericText ==
  CASE var_names = <<>> -> "a lambda function passing no arguments"
    [] var_names = <<"x">> -> "a lambda function passing 'x'"
    [] var_names = <<"x", "y">> -> "a lambda function passing 'x', 'y'"
    [] OTHER -> "?"

\* C1: reconstruction failures are silent: no exception other than a
\* configuration or signature-binding error ever leaves the rendering of a
\* lambda; a failed reduction ends in ParseFailure and the fallback text.
FailuresAreSilent ==
  pc = "raised" => err \in {"TypeError(bind)", "TypeError(signature)"}

\* C2 (as amended): whenever the walk reaches an instruction whose opcode is
\* outside the supported vocabulary, _parse_instructions returns ParseFailure
\* there and the lambda renders as exactly "a lambda function passing
\* <params>", with no "to:" part.
UnsupportedOpcodeFallsBack ==
  StoppedAtUnsupported =>
    /\ func_description = ParseFailure
    /\ pc = "rendered" => text = GenericText

\* C2, witness: a walk that had one operand on the stack stopped at an
\* unsupported opcode and the lambda was rendered
UnsupportedReachedAndRendered ==
  /\ StoppedAtUnsupported
  /\ pc = "rendered"
  /\ Len(args) = 1
  /\ conditions = <<>>

\* C2 (as stated): every instruction list that holds an unsupported opcode
\* anywhere, after a return instruction included, yields ParseFailure
AnyUnsupportedOpcodeFails ==
  (Reconstructed /\ \E j \in 1..Len(given) : given[j] = NOP) =>
    func_description = ParseFailure

\* C3: when the walk ends, at a return instruction with no pending condition
\* or at the end of the list, _parse_instructions returns an expression node
\* (something other than ParseFailure) if and only if exactly one value is on
\* the operand stack and no condition is pending.
ExpressionIffSoleOperand ==
  [][(pc = "final" /\ pc' = "returned") =>
       ((func_description' # ParseFailure) <=> (Len(args) = 1 /\ conditions = <<>>))]_vars

\* C9: for the instruction list of `<first> if <predicate> else <second>`,
\* _parse_instructions returns _Condition(left=first, right=second,
\* condition=predicate), whatever the two branches are, the constant None
\* included.
TernaryYieldsCondition ==
  (expr.kind = "ternary" /\ pc \in {"returned", "rendered", "raised"}) =>
    /\ pc # "raised"
    /\ func_description = _Condition(expr.first, expr.second, expr.predicate)

\* the parameters a call with the pushed arguments, the last Len(names) of
\* them given by keyword, leaves to the keywords and the defaults
Keyworded(sig, pushed, names) == (Len(pushed) - Len(names) + 1)..Len(sig)
\* whether such a call fits the signature sig
Fits(sig, pushed, names) ==
  /\ Len(pushed) - Len(names) <= Len(sig)
  /\ \A j \in 1..Len(names) :
       \E p \in Keyworded(sig, pushed, names) : sig[p].name = names[j]
  /\ \A p \in Keyworded(sig, pushed, names) :
       sig[p].default # Empty \/ \E j \in 1..Len(names) : names[j] = sig[p].name
\* the mapping the claim describes: the first n-k arguments by position, the
\* last k by their names, the declared default for the rest
Described(sig, pushed, names) ==
  [p \in 1..Len(sig) |->
     Entry(StrV(sig[p].name),
           IF p <= Len(pushed) - Len(names) THEN pushed[p]
           ELSE IF \E j \in 1..Len(names) : names[j] = sig[p].name
                THEN pushed[Len(pushed) - Len(names)
                              + (CHOOSE j \in 1..Len(names) : names[j] = sig[p].name)]
                ELSE sig[p].default)]

\* C10: for a call of n pushed arguments of which the last k are named by
\* the keyword-name tuple, _parse_instructions binds the first n-k arguments
\* by position in push order and the last k to the names in order, applies
\* the declared defaults, and yields _BoundFn(callable, mapping); a call that
\* does not fit the signature ends in the binding error.
CallBindsArguments ==
  (expr.kind = "call" /\ pc \in {"returned", "rendered", "raised"}) =>
    IF Fits(Signature(expr.callee), expr.pushed, expr.names)
    THEN /\ pc # "raised"
         /\ func_description =
              _BoundFn(expr.callee,
                       BoundArguments(Described(Signature(expr.callee), expr.pushed,
                                                expr.names)))
    ELSE pc = "raised" /\ err = "TypeError(bind)"

\* C10, witness: lambda x: foo.bar(1, k=2) has been reconstructed as
\* foo.bar bound to {a: 1, k: 2}
CallExampleBound ==
  /\ pc = "returned"
  /\ expr.kind = "call"
  /\ expr.pushed = <<IntV(1), IntV(2)>>
  /\ expr.names = <<"k">>
  /\ func_description =
       _BoundFn(Obj("foo.bar"),
                BoundArguments(<<Entry(StrV("a"), IntV(1)), Entry(StrV("k"), IntV(2))>>))

\* C11: for a binary, in-place or comparison instruction that has an entry
\* in _CommandTable and two operands on the stack, _parse_instructions pops
\* the right operand, then the left, and pushes _Command(left, right,
\* symbol): `lambda x: x <op> 1` yields _Command(x, 1, <op>), rendered as
\* "a lambda function passing 'x' to: x <op> 1"; for a comparison without an
\* entry it returns ParseFailure and both operands are still on the stack.
BinaryYieldsCommand ==
  (expr.kind = "binary" /\ pc \in {"returned", "rendered", "raised"}) =>
    /\ pc # "raised"
    /\ IF expr.operator # ""
       THEN /\ func_description = _Command(_VarWrap("x"), IntV(1), expr.operator)
            /\ pc = "rendered" =>
                 text = "a lambda function passing 'x' to: x " \o expr.operator \o " 1"
       ELSE /\ func_description = ParseFailure
            /\ args = <<_VarWrap("x"), IntV(1)>>

\* C11, witness: lambda x: x + 1 has been rendered
AdditionRendered ==
  /\ expr.kind = "binary"
  /\ pc = "rendered"
  /\ func_description = _Command(_VarWrap("x"), IntV(1), "+")
  /\ text = "a lambda function passing 'x' to: x + 1"

\* C15: when a return instruction completes a _Condition while another
\* condition is pending, the walk stays at that return instruction with the
\* completed _Condition on the stack, and it fills the free slot of the
\* enclosing condition; `a if c1 else (b if c2 else c)` yields
\* _Condition(a, _Condition(b, c, c2), c1) and `(a if c2 else b) if c1 else c`
\* yields _Condition(_Condition(a, b, c2), c, c1), with no condition pending
\* and one operand at the end (a, b, c being other than None).
NestedTernariesYieldConditions ==
  /\ [][(/\ pc = "loop"
         /\ pc' = "loop"
         /\ Len(conditions) >= 2
         /\ Len(conditions') = Len(conditions) - 1) =>
          /\ PyIndexOk(instructions', idx')
          /\ PyAt(instructions', idx').opname = "RETURN_VALUE"
          /\ args' # <<>>
          /\ Last(args') = _Condition(Last(conditions).left, Last(args),
                                      Last(conditions).condition)]_vars
  /\ []((expr.kind = "nested" /\ pc \in {"returned", "rendered", "raised"}) =>
          /\ pc # "raised"
          /\ func_description = expr.node
          /\ conditions = <<>>
          /\ args = <<expr.node>>)

\* C15, witness: both nestings of x, y and 1 under the predicates x > y and
\* x have been reconstructed
NestedTernaryReconstructed ==
  /\ expr.kind = "nested"
  /\ pc = "returned"
  /\ func_description = expr.node
  /\ expr.node.left.tag = "_Condition" \/ expr.node.right.tag = "_Condition"

\* the value the scope binds name to: the enclosing-scope variables first,
\* then the module-level ones, then the built-ins, None when none has it
Bound(name) ==
  IF name \in DOMAIN closure_vars.nonlocals THEN closure_vars.nonlocals[name]
  ELSE IF name \in DOMAIN closure_vars.globals THEN closure_vars.globals[name]
  ELSE IF name \in DOMAIN closure_vars.builtins THEN closure_vars.builtins[name]
  ELSE NoneVal
\* how many attribute or method loads follow one another in ins from the
\* (n+1)-th instruction on
RECURSIVE AttrRun(_, _)
AttrRun(ins, n) ==
  IF n < Len(ins) /\ ins[n + 1].opname \in {"LOAD_METHOD", "LOAD_ATTR"}
  THEN 1 + AttrRun(ins, n + 1)
  ELSE 0
\* the attributes those loads name, taken one after the other from v
RECURSIVE Folded(_, _, _)
Folded(v, ins, n) ==
  IF n < Len(ins) /\ ins[n + 1].opname \in {"LOAD_METHOD", "LOAD_ATTR"}
  THEN IF HasAttr(v, ins[n + 1].argval.s)
       THEN Folded(GetAttr(v, ins[n + 1].argval.s), ins, n + 1)
       ELSE [ok |-> FALSE, val |-> NoneVal]
  ELSE [ok |-> TRUE, val |-> v]
\* the walk is at a load that starts a chain
AtChain ==
  /\ pc = "loop"
  /\ idx < Len(instructions)
  /\ PyIndexOk(instructions, idx)
  /\ Branch(Now, PyAt(instructions, idx), closure_vars) = "chain"

At(ops) ==
  /\ pc = "loop"
  /\ idx < Len(instructions)
  /\ PyIndexOk(instructions, idx)
  /\ PyAt(instructions, idx).opname \in ops
\* the argument of that instruction, the n operands on top of the stack
\* (oldest first) and the stack below them
Size == PyAt(instructions, idx).argval.i
Top(n) == SubSeq(args, Len(args) - n + 1, Len(args))
Below(n) == SubSeq(args, 1, Len(args) - n)
\* the step has replaced the n operands on top by one value
Replaced(n) ==
  /\ pc' # "raised"
  /\ Len(args') = Len(args) - n + 1
  /\ Front(args') = Below(n)
\* d is the mapping of keys to vals, whatever the order of its entries
Maps(d, keys, vals) ==
  /\ d.tag = "dict"
  /\ Range(DictKeys(d.entries)) = Range(keys)
  /\ \A j \in 1..Len(d.entries) :
        \E i \in 1..Len(keys) : d.entries[j] = Entry(keys[i], vals[i])
Keys(pairs) == [j \in 1..(Len(pairs) \div 2) |-> pairs[2 * j - 1]]
Values(pairs) == [j \in 1..(Len(pairs) \div 2) |-> pairs[2 * j]]
\* the step builds what the claim says it builds, from operands that are there
SequenceBuilt ==
  At({"BUILD_LIST", "BUILD_TUPLE", "BUILD_SET"}) /\ Len(args) >= Size =>
    /\ Replaced(Size)
    /\ Last(args') =
         CASE PyAt(instructions, idx).opname = "BUILD_TUPLE" -> Tuple(Top(Size))
           [] PyAt(instructions, idx).opname = "BUILD_SET" -> SetOf(Range(Top(Size)))
           [] OTHER -> List(Top(Size))
MapBuilt ==
  At({"BUILD_MAP"}) /\ Len(args) >= 2 * Size =>
    /\ Replaced(2 * Size)
    /\ Maps(Last(args'), Keys(Top(2 * Size)), Values(Top(2 * Size)))
ConstKeyMapBuilt ==
  /\ At({"BUILD_CONST_KEY_MAP"})
  /\ Len(args) >= Size + 1
  /\ Last(args).tag = "tuple"
  /\ Len(Last(args).items) = Size
  => /\ Replaced(Size + 1)
     /\ Maps(Last(args'), Last(args).items, Top(Size + 1))
\* every member of a set and every key of a mapping can be hashed
MembersHashable ==
  /\ At({"BUILD_SET"}) /\ Len(args) >= Size =>
       \A j \in 1..Size : Hashable(Top(Size)[j])
  /\ At({"BUILD_MAP"}) /\ Len(args) >= 2 * Size =>
       \A j \in 1..Size : Hashable(Keys(Top(2 * Size))[j])
  /\ At({"BUILD_CONST_KEY_MAP"}) /\ Len(args) >= 1 /\ Last(args).tag = "tuple" =>
       Hashable(Last(args))

\* C17: a build of a list, tuple or set of size n replaces the n operands on
\* top of the stack by one container of the kind the opcode names holding
\* them oldest first; a build of a map of n pairs replaces the 2n operands
\* on top by the mapping of each key to the value pushed after it; the build
\* with constant keys replaces the key tuple and the n values under it by
\* the mapping of the i-th key to the i-th value; the stack below is the
\* same.
BuildsYieldContainers ==
  [][SequenceBuilt /\ MapBuilt /\ ConstKeyMapBuilt]_vars

\* the same where the members of the set and the keys of the mapping can be
\* hashed
BuildsOfHashablesYieldContainers ==
  [][MembersHashable => SequenceBuilt /\ MapBuilt /\ ConstKeyMapBuilt]_vars
\* a pair (y, {1: 1, x: 2}) has been built: the mapping, and y under it
MappingBuiltOverOperand ==
  /\ pc = "loop"
  /\ Len(args) = 2
  /\ args[1] = _VarWrap("y")
  /\ args[2] = Dict(<<Entry(_VarWrap("x"), IntV(2)), Entry(IntV(1), IntV(1))>>)

\* C19: no step of the reconstruction, whether it ends in a value, in None
\* or in an exception, changes the list of instructions the caller handed
\* over: its length and its instructions stay as they were.
CallersInstructionsKept == [][given' = given]_vars

\* C19, witness: the reconstruction has returned with instructions removed
\* from its working list, the caller's list still holding all of them
ReturnedWithExcisions ==
  /\ pc = "returned"
  /\ func_description # ParseFailure
  /\ Len(instructions) < Len(given)
  /\ Len(given) = MaxLen

\* the instructions at or after the walk index
Remaining == Len(instructions) - idx
\* a return is processed with a condition pending
FeedsCondition == At({"RETURN_VALUE"}) /\ conditions # <<>>

\* C20: every pass through the loop that stays in the loop leaves fewer
\* instructions at or after the walk index, except a pass for a return with
\* a condition pending, which may leave as many and then leaves one pending
\* condition fewer; and every call of the reconstruction ends, in a value,
\* in None or in an exception.
WalkTerminates ==
  /\ [][pc = "loop" /\ pc' = "loop" =>
          \/ Remaining' < Remaining
          \/ /\ FeedsCondition
             /\ Remaining' = Remaining
             /\ Len(conditions') < Len(conditions)]_vars
  /\ <>(pc \in {"returned", "raised"})

\* C20, witness: a return has completed an inner conditional and is about to
\* be processed again for the condition still pending
ReturnProcessedAgain ==
  /\ pc = "loop"
  /\ conditions # <<>>
  /\ args # <<>>
  /\ Last(args).tag = "_Condition"
  /\ idx < Len(instructions)
  /\ idx >= 0
  /\ instructions[idx + 1].opname = "RETURN_VALUE"

\* the last n instructions of ins
Suffix(ins, n) == SubSeq(ins, Len(ins) - n + 1, Len(ins))

\* C21: while the walk is in its loop there are at least as many
\* instructions before the walk index as there are operands on the stack
\* and conditions pending together (so an instruction removed after a pop is
\* one before the current instruction, at an index that is not negative);
\* and a pass through the loop that is not for the start of an attribute
\* chain leaves the current instruction and the instructions after it as
\* they are.
ProcessedInstructionsCoverStack ==
  /\ [](pc = "loop" => idx >= Len(args) + Len(conditions))
  /\ [][pc = "loop" /\ ~AtChain =>
          /\ Len(instructions') >= Len(instructions) - idx
          /\ Suffix(instructions', Len(instructions) - idx)
               = Suffix(instructions, Len(instructions) - idx)]_vars

\* C21, witness: the condition of a conditional has been removed from the
\* list, the condition is pending and the first branch is on the stack, with
\* exactly two instructions left before the index
BranchLoadedOverCondition ==
  /\ pc = "loop"
  /\ Len(conditions) = 1
  /\ Len(args) = 1
  /\ idx = 2
  /\ Len(instructions) < Len(given)
  /\ instructions[1].opname = "POP_JUMP_IF_FALSE"

(***************************************************************************)
(* Properties of the decorator (specification SpecWrap).                   *)
(***************************************************************************)
\* the names in a tuple of str values
Names(t) == {t.items[j].s : j \in 1..Len(t.items)}
\* the last operation was a call of fe_state that returned a mapping
StateReturned == last = "fe_state" /\ raised = ""
\* the events ev among what the last operation did
EventsOf(evs, ev) == {j \in 1..Len(evs) : evs[j].ev = ev}
\* an argument of the decorator that is not empty: a str stands for the
\* one-element tuple holding it
Supplied(x) == x.tag = "str" \/ x.items # <<>>

\* C4 (as amended): the summary of an instance is written at most once, by
\* the first wrapper entered in the call of __init__ that caches it; once it
\* is cached no call of __init__ binds arguments or renders again or changes
\* it, and the recorded lists, once recorded, never change.
SummaryWrittenOnce ==
  [][/\ SUM \in DOMAIN self_dict =>
          /\ SUM \in DOMAIN self_dict'
          /\ self_dict'[SUM] = self_dict[SUM]
          /\ last' = "__init__" =>
               EventsOf(events', "bind") \cup EventsOf(events', "_trace_value") = {}
     /\ WL \in DOMAIN self_dict =>
          /\ {WL, BL} \subseteq DOMAIN self_dict'
          /\ self_dict'[WL] = self_dict[WL]
          /\ self_dict'[BL] = self_dict[BL]
     /\ (SUM \notin DOMAIN self_dict /\ SUM \in DOMAIN self_dict') =>
          /\ last' = "__init__"
          /\ events'[1].ev = "init"
          /\ Cardinality(EventsOf(events', "bind")) = 1
          /\ Cardinality(EventsOf(events', "_trace_value")) = 1
          /\ self_dict'[SUM] =
               StrV(_trace_value(
                      _BoundFn(Instance(self_class),
                               Dict(BoundArgs(events'[1].cls, Instance(self_class),
                                              events'[1].pos, events'[1].kw))),
                      TRUE, TRUE))]_vars

\* C4, witness: a second call of __init__ entered two wrappers on an
\* instance whose summary was cached, and neither bound arguments
CachedSummaryReentered ==
  /\ last = "__init__"
  /\ inits = 2
  /\ SUM \in DOMAIN self_dict
  /\ Cardinality(EventsOf(events, "init")) = 2
  /\ EventsOf(events, "bind") = {}

\* C4 (as stated): every entry of a wrapper after the first one neither
\* binds arguments nor renders
LaterEntriesNeverBind ==
  [][(inits >= 1 /\ inits' = inits + 1 /\ last' = "__init__") =>
       EventsOf(events', "bind") = {}]_vars

\* C5: the mapping fe_state returns never holds one of the bookkeeping
\* attributes (the recorded whitelist, the recorded blacklist, the cached
\* summary), whatever lists the class was decorated with.
StateOmitsBookkeeping ==
  StateReturned => DOMAIN returned \cap Bookkeeping = {}

\* C6: traceable(whitelist, blacklist) raises the ValueError if and only if
\* both lists are supplied non-empty; it raises before the class is touched,
\* and after it no instance of the class is ever made.
BothListsRaise ==
  /\ last = "traceable" =>
       /\ raised = "ValueError" <=> (Supplied(events[1].pos[1]) /\ Supplied(events[1].pos[2]))
       /\ raised = "ValueError" => (phase = "failed" /\ classes[events[1].cls] = Undefined)
       /\ raised = "" => classes[events[1].cls].decorated
  /\ phase = "failed" => (self_class = "" /\ inits = 0 /\ last = "traceable")

\* C6, witness: a decoration with both lists has raised
DecorationRaised ==
  /\ phase = "failed"
  /\ raised = "ValueError"
  /\ Supplied(events[1].pos[1])
  /\ Supplied(events[1].pos[2])

\* fe_state was called on an instance whose recorded whitelist is not empty
\* and is the whitelist of the class whose fe_state ran
WhitelistedCall ==
  /\ last = "fe_state"
  /\ WL \in DOMAIN self_dict
  /\ self_dict[WL].items # <<>>
  /\ classes[StateOwner(classes, self_class)].whitelist = self_dict[WL]

\* C7 (as amended): with a whitelist, fe_state returns the whitelisted names
\* other than the two recorded-list names _fe_state_whitelist and
\* _fe_state_blacklist, each with the attribute's current value, and nothing
\* else; if a whitelisted name is not an attribute of the instance it raises
\* KeyError.
WhitelistRestrictsState ==
  WhitelistedCall =>
    IF Names(self_dict[WL]) \subseteq DOMAIN self_dict
    THEN /\ raised = ""
         /\ DOMAIN returned = Names(self_dict[WL]) \ {WL, BL}
         /\ \A k \in DOMAIN returned : returned[k] = self_dict[k]
    ELSE raised = "KeyError"

\* C7, witness: fe_state returned for a whitelist that names
\* _fe_state_whitelist
WhitelistedStateReturned ==
  /\ WhitelistedCall
  /\ raised = ""
  /\ WL \in Names(self_dict[WL])
  /\ "name" \in DOMAIN returned

\* C7 (as stated): the keys of the mapping are exactly the whitelisted names
WhitelistIsKeySet ==
  (WhitelistedCall /\ raised = "") => DOMAIN returned = Names(self_dict[WL])

\* C8: with a blacklist, fe_state returns every attribute of the instance
\* except the blacklisted names and the bookkeeping names, each with its
\* value: no blacklisted name is in the mapping, a blacklisted name the
\* instance lacks raises nothing, no other attribute is dropped.
BlacklistFiltersState ==
  (last = "fe_state" /\ WL \in DOMAIN self_dict /\ Len(self_dict[BL].items) > 2) =>
    /\ raised = ""
    /\ DOMAIN returned = DOMAIN self_dict \ (Names(self_dict[BL]) \cup Bookkeeping)
    /\ \A k \in DOMAIN returned : returned[k] = self_dict[k]

\* a constructor argument of CallArgs as _trace_value is to show it
Written(v) ==
  CASE v.tag = "str" -> "'" \o v.s \o "'"
    [] v.tag = "int" -> ToString(v.i)
    [] OTHER -> "a lambda function passing 'x' to: x + 1"
\* the argument the call recorded in the event e gives to the parameter at
\* position p named name, dflt if it gives none
ArgumentAt(e, p, name, dflt) ==
  IF Len(e.pos) >= p THEN e.pos[p]
  ELSE IF HasKey(e.kw, StrV(name)) THEN Lookup(e.kw, name)
  ELSE dflt
\* the constructor arguments of that call as the summary is to show them
ArgumentsWritten(e) ==
  "{name=" \o Written(ArgumentAt(e, 1, "name", NoneVal))
    \o (IF e.cls = "Widget"
        THEN ", count=" \o Written(ArgumentAt(e, 2, "count", IntV(3)))
        ELSE "")
    \o "}"

\* C12 (as amended): the summary cached by a call of __init__ is "an
\* instance of <module>.<class> invoked with: {<name>=<value>, ...}", the
\* arguments being those of the call bound against the signature of the
\* first wrapper entered, defaults applied, self left out; and fe_summary
\* returns "This experiment used " followed by it.  Widget(name="w", count=3)
\* gives "This experiment used an instance of app.Widget invoked with:
\* {name='w', count=3}".
SummaryShowsBoundArguments ==
  /\ [][(SUM \notin DOMAIN self_dict /\ SUM \in DOMAIN self_dict') =>
          self_dict'[SUM] =
            StrV("an instance of app." \o self_class \o " invoked with: "
                   \o ArgumentsWritten(events'[1]))]_vars
  /\ [](last = "fe_summary" /\ raised = "" =>
          returned = StrV("This experiment used " \o self_dict[SUM].s))

\* C12, witness: fe_summary has returned the summary of Widget(name="w",
\* count=3)
WidgetSummaryReturned ==
  /\ last = "fe_summary"
  /\ self_class = "Widget"
  /\ returned = StrV("This experiment used an instance of app.Widget invoked with: "
                       \o "{name='w', count=3}")

\* C12 (as stated): the summary of Widget(name="w", count=3) is "This
\* experiment used Widget invoked with: {name='w', count=3}"
WidgetSummaryNamesClassOnly ==
  (/\ last = "fe_summary"
   /\ raised = ""
   /\ self_class = "Widget"
   /\ inits = 1
   /\ {"name", "count"} \subseteq DOMAIN self_dict
   /\ self_dict["name"] = StrV("w")
   /\ self_dict["count"] = IntV(3)) =>
    returned = StrV("This experiment used Widget invoked with: {name='w', count=3}")

\* the step is a call of __init__ on the instance
Constructs == last' = "__init__" /\ inits' = inits + 1
\* the arguments of the wrapper entry e match the signature of the original
\* __init__ of its class
Matches(e) == BindOk(InitSignature(e.cls), <<Instance(self_class)>> \o e.pos, e.kw)
\* the original __init__ of the class of entry e run with e's arguments
Original(e) == Event("base_init", e.cls, e.pos, e.kw)
\* what the claim says of the wrapper entry logged at place i of evs
EntryBindsThenConstructs(evs, i) ==
  IF ~Matches(evs[i])
  THEN /\ raised' \in {"TypeError(bind)", "TypeError(call)"}
       /\ \A j \in (i + 1)..Len(evs) : evs[j].ev \notin {"base_init", "_trace_value"}
       /\ SUM \in DOMAIN self_dict' =>
            SUM \in DOMAIN self_dict /\ self_dict'[SUM] = self_dict[SUM]
  ELSE /\ Cardinality({j \in 1..Len(evs) : evs[j] = Original(evs[i])}) = 1
       /\ \A j \in 1..Len(evs) :
             evs[j] = Original(evs[i]) =>
               /\ j > i
               /\ \A k \in (j + 1)..Len(evs) :
                     ~(evs[k].ev = "_trace_value" /\ evs[k].cls = evs[i].cls)
       /\ SUM \in DOMAIN self_dict'

\* C18: a wrapper entry whose arguments do not match the signature of the
\* original __init__ ends in the TypeError, without the original __init__
\* run and without a summary written; an entry whose arguments match runs
\* the original __init__ exactly once, with the same arguments, the summary
\* being cached by then.
InitBindsThenConstructs ==
  [][Constructs =>
       \A i \in 1..Len(events') :
          events'[i].ev = "init" => EntryBindsThenConstructs(events', i)]_vars

\* the same, the entries whose rendering raises left aside
InitBindsThenConstructsUnlessRenderRaises ==
  [][Constructs /\ raised' # "ReconstructionError" =>
       \A i \in 1..Len(events') :
          events'[i].ev = "init" => EntryBindsThenConstructs(events', i)]_vars
\* __init__ has been given a lambda that cannot be reconstructed: the
\* arguments were bound, and the original __init__ never ran
OriginalNeverRan ==
  /\ raised = "ReconstructionError"
  /\ \E i \in 1..Len(events) : events[i].ev = "bind"
  /\ \A i \in 1..Len(events) : events[i].ev # "base_init"
\* __init__ was given no name: nothing ran and nothing is cached
BindingErrorReachedCaller ==
  /\ raised = "TypeError(bind)"
  /\ last = "__init__"
  /\ SUM \notin DOMAIN self_dict
  /\ \A i \in 1..Len(events) : events[i].ev # "base_init"

(***************************************************************************)
(* Properties of the rendering (specification SpecTrace).                  *)
(***************************************************************************)
\* C13: for a value other than a str that carries a cached summary,
\* _trace_value returns that summary verbatim whatever the kind of the value
\* and whatever wrap_str and include_id are; nothing of the value is
\* rendered and no lambda is reconstructed (a lambda whose reconstruction
\* would raise gives the summary too), so every call gives the same string.
CachedSummaryVerbatim ==
  (value.tag # "str" /\ HasSummary(value)) =>
    \A j \in 1..Len(results) : results[j] = Result(FALSE, value.summary)

\* C13, witness: a lambda that carries a summary, and whose reconstruction
\* would raise, has been rendered twice
TracedLambdaRenderedTwice ==
  /\ value = Traced(Lambda2, "the cached summary")
  /\ Len(results) = 2
  /\ results[1] = results[2]

\* what the mappings of Mappings, the one-entry mapping and the bound call
\* of Kinds are to be rendered as when wrap_str is w
MappingText(v, w) ==
  CASE v = Dict(<<Entry(StrV("a"), StrV("b"))>>) ->
         IF w THEN "{'a'='b'}" ELSE "{a='b'}"
    [] v = Dict(<<Entry(StrV("a"), Dict(<<Entry(StrV("b"), StrV("c"))>>))>>) ->
         IF w THEN "{'a'={'b'='c'}}" ELSE "{a={'b'='c'}}"
    [] v = Dict(<<Entry(IntV(1), Obj("an instance of Widget")), Entry(StrV("k"), NoneVal)>>) ->
         IF w THEN "{1=an instance of app.Widget (id: 14), 'k'=None}"
         ELSE "{1=an instance of app.Widget (id: 14), k=None}"
    [] v = List(<<Dict(<<Entry(StrV("k"), Obj("an instance of Widget"))>>)>>) ->
         IF w THEN "[{'k'=an instance of app.Widget (id: 14)}]"
         ELSE "[{k=an instance of app.Widget (id: 14)}]"
    [] v = Tuple(<<StrV("t"), Dict(<<Entry(StrV("k"), StrV("v"))>>)>>) ->
         IF w THEN "('t', {'k'='v'})" ELSE "(t, {k='v'})"
    [] v = Dict(<<>>) -> "{}"
    [] OTHER -> "foo.bar invoked with: {a='w'}"
\* the values MappingText covers
HoldsMapping(v) ==
  \/ v \in Mappings
  \/ v = Dict(<<Entry(StrV("a"), StrV("b"))>>)
  \/ v = _BoundFn(Obj("foo.bar"), BoundArguments(<<Entry(StrV("a"), StrV("w"))>>))

\* C14 (as amended): a mapping is rendered as key=value entries joined
\* inside braces; every value is rendered with wrap_str and include_id on,
\* whatever the flags in force; every key is rendered with the flags in
\* force for the mapping, so a str key has no quote marks only where
\* wrap_str is off (as for the arguments of a bound call), and has them in a
\* mapping that is itself a value of a mapping.
MappingEntriesRendered ==
  HoldsMapping(value) =>
    \A j \in 1..Len(results) : results[j] = Result(FALSE, MappingText(value, wrap))

\* C14, witness: a mapping in a mapping has been rendered with both flags
\* off: the outer key bare, the inner key and value in quote marks
NestedMappingRendered ==
  /\ value = Dict(<<Entry(StrV("a"), Dict(<<Entry(StrV("b"), StrV("c"))>>))>>)
  /\ ~wrap
  /\ ~with_id
  /\ Len(results) = 1
  /\ results[1].text = "{a={'b'='c'}}"

\* C14 (as stated): every key is rendered without quote marks whatever the
\* flags in force
KeysNeverQuoted ==
  value = Dict(<<Entry(StrV("a"), StrV("b"))>>) =>
    \A j \in 1..Len(results) : results[j].text = "{a='b'}"

=============================================================================
